---- MODULE Spec2Model ----
(***************************************************************************)
(* A model of src/semantic_browser.py: the PrologEngine (fact store, rule  *)
(* base, execution trace, unifier, evaluator with its three built-ins) and *)
(* the SemanticBrowser that loads fact and rule text into it and answers   *)
(* query text (execute_query).                                             *)
(*                                                                         *)
(* Text is modelled as a sequence of pieces: the words of the text, which  *)
(* single spaces separate, and the punctuation pieces "." and "?", which   *)
(* are attached to the word before them.  A multi-line text is a sequence  *)
(* of such lines.  A Python str term is [str |-> s], a Python int term is  *)
(* [int |-> n]; terms of different types are unequal, as in Python.        *)
(***************************************************************************)
EXTENDS Integers, Sequences, FiniteSets, TLC

VARIABLES
    facts,            \* PrologEngine.facts: predicate -> list of argument tuples
    rules,            \* PrologEngine.rules: list of <<head, body>>
    execution_trace,  \* PrologEngine.execution_trace
    result,           \* the record returned by the latest execute_query call
    ace_rules,        \* the arguments of the latest (or pending) call
    query_text,
    custom_facts,
    today,            \* date.today() as <<year, month, day>>
    dropped           \* history: the latest call began with a fact predicate in
                      \* the engine that is not there after it

vars == <<facts, rules, execution_trace, result, ace_rules, query_text,
          custom_facts, today, dropped>>

-----------------------------------------------------------------------------
(* Terms and exceptions *)

S(x) == [str |-> x]
I(n) == [int |-> n]
IsStr(t) == "str" \in DOMAIN t

\* the identifiers of the model that begin with "_"
UnderscoreNames == {"_person", "_child", "_x", "_y"}

\* isinstance(t, str) and t.startswith('_')
IsVar(t) == IsStr(t) /\ t.str \in UnderscoreNames

\* the value None
None == [None |-> TRUE]

\* str(e) of the exceptions the engine raises; NoError when none is raised
NoError == "no exception"
IndexError == "tuple index out of range"
ValueError2 == "not enough values to unpack (expected 2, got 1)"
ValueError3 == "not enough values to unpack (expected 3, got 0)"

Min(set) == CHOOSE m \in set : \A n \in set : m <= n

-----------------------------------------------------------------------------
(* PrologEngine *)

\* PrologEngine.__init__
NewEngine == [facts |-> <<>>, rules |-> <<>>, execution_trace |-> <<>>]

\* clear that empties nothing
clear_keeping(kb) == kb

clear(kb) == [facts |-> <<>>, rules |-> <<>>, execution_trace |-> <<>>]

\* add_fact that skips a tuple the predicate already holds
add_fact_unique(kb, predicate, args) ==
    [kb EXCEPT
        !.facts = IF predicate \in DOMAIN @
                  THEN IF \E k \in 1..Len(@[predicate]) : @[predicate][k] = args
                       THEN @
                       ELSE [@ EXCEPT ![predicate] = Append(@, args)]
                  ELSE @ @@ (predicate :> <<args>>),
        !.execution_trace =
            Append(@, [kind |-> "Added fact", predicate |-> predicate, args |-> args])]

add_fact(kb, predicate, args) ==
    [kb EXCEPT
        !.facts = IF predicate \in DOMAIN @
                  THEN [@ EXCEPT ![predicate] = Append(@, args)]
                  ELSE @ @@ (predicate :> <<args>>),
        !.execution_trace =
            Append(@, [kind |-> "Added fact", predicate |-> predicate, args |-> args])]

\* add_rule that leaves no entry in the execution trace
add_rule_silent(kb, head, body) ==
    [kb EXCEPT !.rules = Append(@, <<head, body>>)]

add_rule(kb, head, body) ==
    [kb EXCEPT
        !.rules = Append(@, <<head, body>>),
        !.execution_trace =
            Append(@, [kind |-> "Added rule", head |-> head, body |-> body])]

RECURSIVE UnifyFrom(_, _, _, _)

\* a unifier in which only fact-side variables bind
UnifyFrom_factside(pattern, fact, i, bindings) ==
    IF i > Len(pattern) THEN bindings
    ELSE LET p == pattern[i]
             f == fact[i]
         IN  IF IsVar(f)
             THEN IF f.str \in DOMAIN bindings
                  THEN IF bindings[f.str] # p THEN None
                       ELSE UnifyFrom(pattern, fact, i + 1, bindings)
                  ELSE UnifyFrom(pattern, fact, i + 1, bindings @@ (f.str :> p))
             ELSE IF p # f THEN None
             ELSE UnifyFrom(pattern, fact, i + 1, bindings)

\* a unifier that keeps the first binding of a variable without comparing
UnifyFrom_unchecked(pattern, fact, i, bindings) ==
    IF i > Len(pattern) THEN bindings
    ELSE LET p == pattern[i]
             f == fact[i]
         IN  IF IsVar(f)
             THEN IF f.str \in DOMAIN bindings
                  THEN UnifyFrom(pattern, fact, i + 1, bindings)
                  ELSE UnifyFrom(pattern, fact, i + 1, bindings @@ (f.str :> p))
             ELSE IF IsVar(p)
             THEN IF p.str \in DOMAIN bindings
                  THEN UnifyFrom(pattern, fact, i + 1, bindings)
                  ELSE UnifyFrom(pattern, fact, i + 1, bindings @@ (p.str :> f))
             ELSE IF p # f THEN None
             ELSE UnifyFrom(pattern, fact, i + 1, bindings)

UnifyFrom(pattern, fact, i, bindings) ==
    IF i > Len(pattern) THEN bindings
    ELSE LET p == pattern[i]
             f == fact[i]
         IN  IF IsVar(f)
             THEN IF f.str \in DOMAIN bindings
                  THEN IF bindings[f.str] # p THEN None
                       ELSE UnifyFrom(pattern, fact, i + 1, bindings)
                  ELSE UnifyFrom(pattern, fact, i + 1, bindings @@ (f.str :> p))
             ELSE IF IsVar(p)
             THEN IF p.str \in DOMAIN bindings
                  THEN IF bindings[p.str] # f THEN None
                       ELSE UnifyFrom(pattern, fact, i + 1, bindings)
                  ELSE UnifyFrom(pattern, fact, i + 1, bindings @@ (p.str :> f))
             ELSE IF p # f THEN None
             ELSE UnifyFrom(pattern, fact, i + 1, bindings)

_try_unify(pattern, fact) ==
    IF Len(pattern) # Len(fact) THEN None
    ELSE UnifyFrom(pattern, fact, 1, <<>>)

\* [err, value]: the age of person on the date `now`, or the exception raised
\* an age that counts the birthday itself as still before it
_calculate_age_late(fs, now, person) ==
    IF "birthdate" \in DOMAIN fs
    THEN LET bs == fs["birthdate"]
             hits == {i \in 1..Len(bs) : bs[i][1] = person}
         IN  IF hits = {} THEN [err |-> NoError, value |-> 0]
             ELSE LET fact_args == bs[Min(hits)]
                  IN  IF Len(fact_args) < 4
                      THEN [err |-> ValueError3, value |-> 0]
                      ELSE LET birth_year == fact_args[2].int
                               birth_month == fact_args[3].int
                               birth_day == fact_args[4].int
                               age == now[1] - birth_year
                           IN  [err |-> NoError,
                                value |-> IF now[2] < birth_month
                                             \/ (now[2] = birth_month /\ now[3] <= birth_day)
                                          THEN age - 1 ELSE age]
    ELSE [err |-> NoError, value |-> 0]

\* a person without a birthdate fact taken for an adult
_calculate_age_adult(fs, now, person) ==
    IF "birthdate" \in DOMAIN fs
    THEN LET bs == fs["birthdate"]
             hits == {i \in 1..Len(bs) : bs[i][1] = person}
         IN  IF hits = {} THEN [err |-> NoError, value |-> 18]
             ELSE LET fact_args == bs[Min(hits)]
                  IN  IF Len(fact_args) < 4
                      THEN [err |-> ValueError3, value |-> 0]
                      ELSE LET birth_year == fact_args[2].int
                               birth_month == fact_args[3].int
                               birth_day == fact_args[4].int
                               age == now[1] - birth_year
                           IN  [err |-> NoError,
                                value |-> IF now[2] < birth_month
                                             \/ (now[2] = birth_month /\ now[3] < birth_day)
                                          THEN age - 1 ELSE age]
    ELSE [err |-> NoError, value |-> 18]

_calculate_age(fs, now, person) ==
    IF "birthdate" \in DOMAIN fs
    THEN LET bs == fs["birthdate"]
             hits == {i \in 1..Len(bs) : bs[i][1] = person}
         IN  IF hits = {} THEN [err |-> NoError, value |-> 0]
             ELSE LET fact_args == bs[Min(hits)]
                  IN  IF Len(fact_args) < 4   \* fact_args[1:4] has fewer than 3 items
                      THEN [err |-> ValueError3, value |-> 0]
                      ELSE LET birth_year == fact_args[2].int
                               birth_month == fact_args[3].int
                               birth_day == fact_args[4].int
                               age == now[1] - birth_year
                           IN  [err |-> NoError,
                                value |-> IF now[2] < birth_month
                                             \/ (now[2] = birth_month /\ now[3] < birth_day)
                                          THEN age - 1 ELSE age]
    ELSE [err |-> NoError, value |-> 0]

\* the loop over facts['has_child'] of the built-in has_child_under_18, from
\* index i on: [err, value] with value = the flag has_child_under_18
RECURSIVE ChildScan(_, _, _, _)

\* a scan that lets the first child of the person decide
ChildScan_first(fs, now, person, i) ==
    IF i > Len(fs["has_child"]) THEN [err |-> NoError, value |-> FALSE]
    ELSE LET t == fs["has_child"][i]
         IN  IF Len(t) # 2 THEN [err |-> ValueError2, value |-> FALSE]
             ELSE IF t[1] = person
             THEN LET child_age == _calculate_age(fs, now, t[2])
                  IN  IF child_age.err # NoError
                      THEN [err |-> child_age.err, value |-> FALSE]
                      ELSE [err |-> NoError, value |-> child_age.value < 18]
             ELSE ChildScan(fs, now, person, i + 1)

ChildScan(fs, now, person, i) ==
    IF i > Len(fs["has_child"]) THEN [err |-> NoError, value |-> FALSE]
    ELSE LET t == fs["has_child"][i]
         IN  IF Len(t) # 2 THEN [err |-> ValueError2, value |-> FALSE]
             ELSE IF t[1] = person
             THEN LET child_age == _calculate_age(fs, now, t[2])
                  IN  IF child_age.err # NoError
                      THEN [err |-> child_age.err, value |-> FALSE]
                      ELSE IF child_age.value < 18
                      THEN [err |-> NoError, value |-> TRUE]
                      ELSE ChildScan(fs, now, person, i + 1)
             ELSE ChildScan(fs, now, person, i + 1)

\* income_less_than that takes a tuple without an income for no income
IncomeLessThan_lenient(fs, person, income_limit) ==
    IF "yearly_income" \in DOMAIN fs
    THEN LET ys == fs["yearly_income"]
             hits == {i \in 1..Len(ys) : ys[i][1] = person /\ Len(ys[i]) >= 2}
         IN  IF hits = {} THEN [err |-> NoError, value |-> FALSE]
             ELSE [err |-> NoError,
                   value |-> ~(ys[Min(hits)][2].int >= income_limit.int)]
    ELSE [err |-> NoError, value |-> FALSE]

\* income_less_than that holds when any income tuple of the person is below
\* the limit
IncomeLessThan_any(fs, person, income_limit) ==
    IF "yearly_income" \in DOMAIN fs
    THEN LET ys == fs["yearly_income"]
             hits == {i \in 1..Len(ys) : ys[i][1] = person}
         IN  IF hits = {} THEN [err |-> NoError, value |-> FALSE]
             ELSE IF \E i \in hits : Len(ys[i]) < 2
             THEN [err |-> IndexError, value |-> FALSE]
             ELSE [err |-> NoError,
                   value |-> \E i \in hits : ys[i][2].int < income_limit.int]
    ELSE [err |-> NoError, value |-> FALSE]

\* the built-in income_less_than: [err, value]
IncomeLessThan(fs, person, income_limit) ==
    IF "yearly_income" \in DOMAIN fs
    THEN LET ys == fs["yearly_income"]
             hits == {i \in 1..Len(ys) : ys[i][1] = person}
         IN  IF hits = {} THEN [err |-> NoError, value |-> FALSE]
             ELSE LET fact_args == ys[Min(hits)]
                  IN  IF Len(fact_args) < 2 THEN [err |-> IndexError, value |-> FALSE]
                      ELSE [err |-> NoError,
                            value |-> ~(fact_args[2].int >= income_limit.int)]
    ELSE [err |-> NoError, value |-> FALSE]

\* the substitution loop at the head of _evaluate_body_with_bindings
Substitute(args, bindings) ==
    [k \in 1..Len(args) |->
        IF IsVar(args[k]) /\ args[k].str \in DOMAIN bindings
        THEN bindings[args[k].str] ELSE args[k]]

\* the results the facts of `predicate` contribute to query(predicate, args)
RECURSIVE FactResults(_, _, _)

\* a fact loop that stops at the first fact that unifies
FactResults_first(fact_list, args, i) ==
    IF i > Len(fact_list) THEN <<>>
    ELSE LET bindings == _try_unify(args, fact_list[i])
         IN  IF bindings # None
             THEN <<[bindings |-> bindings]>>
             ELSE FactResults(fact_list, args, i + 1)

\* the fact loop testing `if bindings:` instead of `if bindings is not None:`
FactResults_truthy(fact_list, args, i) ==
    IF i > Len(fact_list) THEN <<>>
    ELSE LET bindings == _try_unify(args, fact_list[i])
         IN  IF bindings # None /\ bindings # <<>>
             THEN <<[bindings |-> bindings]>> \o FactResults(fact_list, args, i + 1)
             ELSE FactResults(fact_list, args, i + 1)

FactResults(fact_list, args, i) ==
    IF i > Len(fact_list) THEN <<>>
    ELSE LET bindings == _try_unify(args, fact_list[i])
         IN  IF bindings # None
             THEN <<[bindings |-> bindings]>> \o FactResults(fact_list, args, i + 1)
             ELSE FactResults(fact_list, args, i + 1)

RECURSIVE query(_, _, _, _)
RECURSIVE RuleLoop(_, _, _, _, _, _)
RECURSIVE _evaluate_body_with_bindings(_, _, _, _, _)

\* a body evaluation that goes on to the later calls after a sub-query failed
_evaluate_body_with_bindings_eager(kb, now, body, bindings, i) ==
    IF i > Len(body) THEN [err |-> NoError, value |-> TRUE, kb |-> kb, bindings |-> bindings]
    ELSE
    LET pred == body[i][1]
        substituted_args == Substitute(body[i][2], bindings)
        Rest(failed, r) == IF failed THEN [r EXCEPT !.value = FALSE] ELSE r
        BuiltIn(r) ==
            IF r.err # NoError
            THEN [err |-> r.err, value |-> FALSE, kb |-> kb, bindings |-> bindings]
            ELSE Rest(~r.value,
                      _evaluate_body_with_bindings(kb, now, body, bindings, i + 1))
        AgeLessThan(actual_age) ==
            [err |-> actual_age.err,
             value |-> ~(actual_age.value >= substituted_args[2].int)]
        SubQuery(sub) ==
            IF sub.err # NoError
            THEN [err |-> sub.err, value |-> FALSE, kb |-> sub.kb, bindings |-> bindings]
            ELSE Rest(sub.results = <<>>,
                      _evaluate_body_with_bindings(sub.kb, now, body, bindings, i + 1))
    IN  IF pred = "age_less_than"
        THEN BuiltIn(AgeLessThan(_calculate_age(kb.facts, now, substituted_args[1])))
        ELSE IF pred = "income_less_than"
        THEN BuiltIn(IncomeLessThan(kb.facts, substituted_args[1], substituted_args[2]))
        ELSE IF pred = "has_child_under_18"
        THEN BuiltIn(IF "has_child" \in DOMAIN kb.facts
                     THEN ChildScan(kb.facts, now, substituted_args[1], 1)
                     ELSE [err |-> NoError, value |-> FALSE])
        ELSE SubQuery(query(kb, now, pred, substituted_args))

\* a body evaluation that takes over the bindings of each sub-query's first
\* result
_evaluate_body_with_bindings_binding(kb, now, body, bindings, i) ==
    IF i > Len(body)
    THEN [err |-> NoError, value |-> TRUE, kb |-> kb, bindings |-> bindings]
    ELSE
    LET pred == body[i][1]
        substituted_args == Substitute(body[i][2], bindings)
        BuiltIn(r) ==
            IF r.err # NoError \/ ~r.value
            THEN [err |-> r.err, value |-> FALSE, kb |-> kb, bindings |-> bindings]
            ELSE _evaluate_body_with_bindings(kb, now, body, bindings, i + 1)
        AgeLessThan(actual_age) ==
            [err |-> actual_age.err,
             value |-> ~(actual_age.value >= substituted_args[2].int)]
        SubQuery(sub) ==
            IF sub.err # NoError \/ sub.results = <<>>
            THEN [err |-> sub.err, value |-> FALSE, kb |-> sub.kb,
                  bindings |-> bindings]
            ELSE _evaluate_body_with_bindings(sub.kb, now, body,
                                              bindings @@ sub.results[1].bindings,
                                              i + 1)
    IN  IF pred = "age_less_than"
        THEN BuiltIn(AgeLessThan(_calculate_age(kb.facts, now, substituted_args[1])))
        ELSE IF pred = "income_less_than"
        THEN BuiltIn(IncomeLessThan(kb.facts, substituted_args[1], substituted_args[2]))
        ELSE IF pred = "has_child_under_18"
        THEN BuiltIn(IF "has_child" \in DOMAIN kb.facts
                     THEN ChildScan(kb.facts, now, substituted_args[1], 1)
                     ELSE [err |-> NoError, value |-> FALSE])
        ELSE SubQuery(query(kb, now, pred, substituted_args))

\* [err, value, kb, bindings]: body calls i.. of `body`; value is the returned
\* boolean, bindings is the map the caller passed, as the call leaves it;
\* kb carries the execution trace the sub-queries extended
_evaluate_body_with_bindings(kb, now, body, bindings, i) ==
    IF i > Len(body) THEN [err |-> NoError, value |-> TRUE, kb |-> kb, bindings |-> bindings]
    ELSE
    LET pred == body[i][1]
        substituted_args == Substitute(body[i][2], bindings)
        \* a built-in gave r = [err, value]
        BuiltIn(r) ==
            IF r.err # NoError \/ ~r.value
            THEN [err |-> r.err, value |-> FALSE, kb |-> kb, bindings |-> bindings]
            ELSE _evaluate_body_with_bindings(kb, now, body, bindings, i + 1)
        AgeLessThan(actual_age) ==
            [err |-> actual_age.err,
             value |-> ~(actual_age.value >= substituted_args[2].int)]
        \* the sub-query gave sub = [err, results, kb]
        SubQuery(sub) ==
            IF sub.err # NoError \/ sub.results = <<>>
            THEN [err |-> sub.err, value |-> FALSE, kb |-> sub.kb, bindings |-> bindings]
            ELSE _evaluate_body_with_bindings(sub.kb, now, body, bindings, i + 1)
    IN  IF pred = "age_less_than"
        THEN BuiltIn(AgeLessThan(_calculate_age(kb.facts, now, substituted_args[1])))
        ELSE IF pred = "income_less_than"
        THEN BuiltIn(IncomeLessThan(kb.facts, substituted_args[1], substituted_args[2]))
        ELSE IF pred = "has_child_under_18"
        THEN BuiltIn(IF "has_child" \in DOMAIN kb.facts
                     THEN ChildScan(kb.facts, now, substituted_args[1], 1)
                     ELSE [err |-> NoError, value |-> FALSE])
        ELSE SubQuery(query(kb, now, pred, substituted_args))

\* the loop over self.rules of query, from rule i on
RuleLoop(kb, now, predicate, args, i, results) ==
    IF i > Len(kb.rules) THEN [err |-> NoError, results |-> results, kb |-> kb]
    ELSE LET head == kb.rules[i][1]
             body == kb.rules[i][2]
             \* the head unified with `bindings` and the body gave r
             Body(bindings, r) ==
                 IF r.err # NoError
                 THEN [err |-> r.err, results |-> results, kb |-> r.kb]
                 ELSE RuleLoop(r.kb, now, predicate, args, i + 1,
                               IF r.value
                               THEN Append(results, [bindings |-> r.bindings])
                               ELSE results)
             Unified(bindings) ==
                 IF bindings # None
                 THEN Body(bindings,
                           _evaluate_body_with_bindings(kb, now, body, bindings, 1))
                 ELSE RuleLoop(kb, now, predicate, args, i + 1, results)
         IN  IF head[1] = predicate
             THEN Unified(_try_unify(args, head[2]))
             ELSE RuleLoop(kb, now, predicate, args, i + 1, results)

\* a query that stores what it derived as a fact
query_memo(kb, now, predicate, args) ==
    LET Memo(r) ==
            IF r.err = NoError /\ r.results # <<>>
            THEN [r EXCEPT !.kb.facts =
                     IF predicate \in DOMAIN @
                     THEN [@ EXCEPT ![predicate] = Append(@, args)]
                     ELSE @ @@ (predicate :> <<args>>)]
            ELSE r
    IN  Memo(RuleLoop([kb EXCEPT !.execution_trace =
                          Append(@, [kind |-> "Query", predicate |-> predicate,
                                     args |-> args])],
                      now, predicate, args, 1,
                      IF predicate \in DOMAIN kb.facts
                      THEN FactResults(kb.facts[predicate], args, 1)
                      ELSE <<>>))

\* [err, results, kb]: the list query returns, or the exception it raises
query(kb, now, predicate, args) ==
    RuleLoop([kb EXCEPT !.execution_trace =
                 Append(@, [kind |-> "Query", predicate |-> predicate, args |-> args])],
             now, predicate, args, 1,
             IF predicate \in DOMAIN kb.facts
             THEN FactResults(kb.facts[predicate], args, 1)
             ELSE <<>>)

-----------------------------------------------------------------------------
(* Text: str.lower, str.strip, substring tests, int() and the f-strings,    *)
(* each given by its table over the words of the model                      *)

LowerTable ==
    ("Is" :> "is") @@ ("Who" :> "who") @@ ("What" :> "what") @@ ("If" :> "if")
    @@ ("Kindergeld" :> "kindergeld") @@ ("Maria" :> "maria")
    @@ ("Germany" :> "germany") @@ ("Austria" :> "austria") @@ ("Blah" :> "blah")
    @@ ("KINDERGELD" :> "kindergeld") @@ ("Tax_Relief" :> "tax_relief")
    @@ ("Student_Support" :> "student_support") @@ ("The" :> "the")

\* word.lower()
Lower(w) == IF w \in DOMAIN LowerTable THEN LowerTable[w] ELSE w

\* text.lower()
LowerText(text) == [k \in 1..Len(text) |-> Lower(text[k])]

\* the keywords of the program that occur inside the word w
KeywordsIn(w) ==
    CASE w = "kindergeld" -> {"kindergeld"}
      [] w = "kindergeld_amount" -> {"kindergeld"}
      [] w = "tax_relief" -> {"tax_relief"}
      [] w = "low_income_tax_relief" -> {"tax_relief", "low_income_tax_relief"}
      [] w = "student_support" -> {"student_support"}
      [] w = "eligible" -> {"eligible"}
      [] w = "children" -> {"children"}
      [] OTHER -> {}

\* keyword in text (a keyword has no space, so it lies within one word)
Contains(text, keyword) == \E k \in 1..Len(text) : keyword \in KeywordsIn(text[k])

\* the positions where the words of `phrase` stand in `text`
PhraseAt(text, phrase) ==
    {k \in 1..(Len(text) - Len(phrase) + 1) :
        \A j \in 1..Len(phrase) : text[k + j - 1] = phrase[j]}

\* " w1 .. wn " in text: the phrase with a word before it and a word after it
ContainsSpaced(text, phrase) ==
    \E k \in PhraseAt(text, phrase) : k > 1 /\ k + Len(phrase) <= Len(text)

\* text.strip(mark) for a punctuation mark
RECURSIVE Strip(_, _)
Strip(text, mark) ==
    IF text = <<>> THEN text
    ELSE IF Head(text) = mark THEN Strip(Tail(text), mark)
    ELSE IF text[Len(text)] = mark THEN Strip(SubSeq(text, 1, Len(text) - 1), mark)
    ELSE text

\* the words matching \w+
IsWord(w) == w \notin {".", "?", "2015-01-01", "2000-06-15", "2015-1-1"}

\* int(s) and str(n) for the numerals of the model
Numerals ==
    {<<"45000", 45000>>, <<"90000", 90000>>, <<"25000", 25000>>, <<"75000", 75000>>,
     <<"15000", 15000>>, <<"35", 35>>, <<"28", 28>>, <<"42", 42>>, <<"22", 22>>,
     <<"20", 20>>, <<"2000", 2000>>, <<"2008", 2008>>, <<"2010", 2010>>,
     <<"2015", 2015>>, <<"2018", 2018>>, <<"2020", 2020>>}
TwoDigits ==
    {<<"01", 1>>, <<"03", 3>>, <<"05", 5>>, <<"06", 6>>, <<"07", 7>>, <<"09", 9>>,
     <<"10", 10>>, <<"12", 12>>, <<"15", 15>>, <<"22", 22>>}

\* the words matching \d+
IsDigits(w) == \E n \in Numerals \cup TwoDigits : n[1] = w
IntOf(w) == (CHOOSE n \in Numerals \cup TwoDigits : n[1] = w)[2]
\* f"{n}"
StrOf(n) == (CHOOSE t \in Numerals : t[2] = n)[1]
\* f"{n:02d}"
StrOf02(n) == (CHOOSE t \in TwoDigits : t[2] = n)[1]

\* the words y-m-d with y matching \d{4}, m and d matching \d{2}
DateWords ==
    {<<"2015-01-01", "2015", "01", "01">>, <<"2000-06-15", "2000", "06", "15">>,
     <<"2010-03-15", "2010", "03", "15">>, <<"2018-07-22", "2018", "07", "22">>,
     <<"2015-12-01", "2015", "12", "01">>, <<"2008-05-10", "2008", "05", "10">>,
     <<"2020-09-03", "2020", "09", "03">>}
IsDate(w) == \E t \in DateWords : t[1] = w
DateGroups(w) == CHOOSE t \in DateWords : t[1] = w
\* f"{y}-{m}-{d}"
DateWord(y, m, d) == (CHOOSE t \in DateWords : t[2] = y /\ t[3] = m /\ t[4] = d)[1]

-----------------------------------------------------------------------------
(* SemanticBrowser: the sample database and sql_to_ace *)

\* (id, name, annual_gross_income, tax_residence_country, age, is_student,
\*  studies_full_time)
test_persons ==
    << <<12345, "Maria Schmidt", 45000, "Germany", 35, 0, 0>>,
       <<12346, "Hans Mueller", 25000, "Germany", 28, 0, 0>>,
       <<12347, "Anna Weber", 75000, "Germany", 42, 0, 0>>,
       <<12348, "Peter Jung", 15000, "Austria", 22, 1, 1>>,
       <<12349, "Lisa Klein", 0, "Germany", 20, 1, 1>> >>

\* (id, parent_id, birth_year, birth_month, birth_day)
test_children ==
    << <<67890, 12345, 2010, 3, 15>>,
       <<67891, 12345, 2018, 7, 22>>,
       <<67892, 12346, 2015, 12, 1>>,
       <<67893, 12347, 2008, 5, 10>>,
       <<67894, 12347, 2020, 9, 3>> >>

\* name.replace(' ', '_').lower()
AceName(name) ==
    CASE name = "Maria Schmidt" -> "maria_schmidt"
      [] name = "Hans Mueller" -> "hans_mueller"
      [] name = "Anna Weber" -> "anna_weber"
      [] name = "Peter Jung" -> "peter_jung"
      [] name = "Lisa Klein" -> "lisa_klein"

\* f"child_{child_id}"
ChildAce(child_id) ==
    CASE child_id = 67890 -> "child_67890"
      [] child_id = 67891 -> "child_67891"
      [] child_id = 67892 -> "child_67892"
      [] child_id = 67893 -> "child_67893"
      [] child_id = 67894 -> "child_67894"

\* the statements sql_to_ace appends for one row of persons
PersonStatements(person) ==
    LET person_ace == AceName(person[2])
    IN  << <<person_ace, "is", "a", "person", ".">> >>
        \o (IF person[3] # 0
            THEN << <<person_ace, "has", "a", "yearly_income", "of",
                      StrOf(person[3]), "euros", ".">> >> ELSE <<>>)
        \o (IF person[4] # ""
            THEN << <<person_ace, "has", "tax_residence", "in", person[4], ".">> >>
            ELSE <<>>)
        \o (IF person[5] # 0
            THEN << <<person_ace, "has", "age", StrOf(person[5]), "years", ".">> >>
            ELSE <<>>)
        \o (IF person[6] # 0
            THEN << <<person_ace, "is", "a", "student", ".">> >> ELSE <<>>)
        \o (IF person[7] # 0
            THEN << <<person_ace, "studies", "full_time", ".">> >> ELSE <<>>)

\* the statements sql_to_ace appends for one row of children
ChildStatements(child) ==
    LET child_ace == ChildAce(child[1])
        parent == CHOOSE k \in 1..Len(test_persons) : test_persons[k][1] = child[2]
        parent_name == AceName(test_persons[parent][2])
    IN  << <<child_ace, "is", "a", "child", ".">>,
           <<parent_name, "has", "child", child_ace, ".">>,
           <<child_ace, "has", "a", "birthdate", "of",
             DateWord(StrOf(child[3]), StrOf02(child[4]), StrOf02(child[5])), ".">> >>

\* the loop `for person in persons`, from row k on
RECURSIVE PersonsLoop(_)
PersonsLoop(k) ==
    IF k > Len(test_persons) THEN <<>>
    ELSE PersonStatements(test_persons[k]) \o PersonsLoop(k + 1)

\* the loop `for child in children`, from row k on
RECURSIVE ChildrenLoop(_)
ChildrenLoop(k) ==
    IF k > Len(test_children) THEN <<>>
    ELSE ChildStatements(test_children[k]) \o ChildrenLoop(k + 1)

sql_to_ace == PersonsLoop(1) \o ChildrenLoop(1)

-----------------------------------------------------------------------------
(* SemanticBrowser: loading facts and rules *)

\* the word before position k, the words between k + n and the next
\* occurrence of the separator: str.split of single-word parts
PartBefore(text, k) == text[k - 1]
PartAfter(text, k, n) == text[k + n]

\* the if/elif chain of _parse_ace_fact: <<predicate, args>> of the fact the
\* stripped line adds, None when it adds none
FactOf(ace_fact) ==
    LET at(phrase) == Min(PhraseAt(ace_fact, phrase))
    IN  IF ContainsSpaced(ace_fact, <<"is", "a">>)
        THEN LET k == Min({j \in PhraseAt(ace_fact, <<"is", "a">>) :
                               j > 1 /\ j + 2 <= Len(ace_fact)})
             IN  <<PartAfter(ace_fact, k, 2), <<S(PartBefore(ace_fact, k))>> >>
        ELSE IF ContainsSpaced(ace_fact, <<"has", "a", "yearly_income", "of">>)
        THEN LET k == at(<<"has", "a", "yearly_income", "of">>)
             IN  IF /\ IsWord(ace_fact[k - 1]) /\ IsDigits(ace_fact[k + 4])
                    /\ k + 5 <= Len(ace_fact) /\ ace_fact[k + 5] = "euros"
                 THEN <<"yearly_income",
                        <<S(ace_fact[k - 1]), I(IntOf(ace_fact[k + 4]))>> >>
                 ELSE None
        ELSE IF ContainsSpaced(ace_fact, <<"has", "tax_residence", "in">>)
        THEN LET k == at(<<"has", "tax_residence", "in">>)
             IN  IF IsWord(ace_fact[k - 1]) /\ IsWord(ace_fact[k + 3])
                 THEN <<"tax_residence",
                        <<S(ace_fact[k - 1]), S(Lower(ace_fact[k + 3]))>> >>
                 ELSE None
        ELSE IF ContainsSpaced(ace_fact, <<"has", "child">>)
        THEN LET k == at(<<"has", "child">>)
             IN  IF IsWord(ace_fact[k - 1]) /\ IsWord(ace_fact[k + 2])
                 THEN <<"has_child", <<S(ace_fact[k - 1]), S(ace_fact[k + 2])>> >>
                 ELSE None
        ELSE IF ContainsSpaced(ace_fact, <<"has", "a", "birthdate", "of">>)
        THEN LET k == at(<<"has", "a", "birthdate", "of">>)
             IN  IF IsWord(ace_fact[k - 1]) /\ IsDate(ace_fact[k + 4])
                 THEN LET g == DateGroups(ace_fact[k + 4])
                      IN  <<"birthdate",
                            <<S(ace_fact[k - 1]), I(IntOf(g[2])),
                              I(IntOf(g[3])), I(IntOf(g[4]))>> >>
                 ELSE None
        ELSE None

\* _parse_ace_fact that records a line of no shape as a fact of its own
_parse_ace_fact_recording(kb, line) ==
    LET Add(fact) == IF fact = None
                     THEN add_fact(kb, "unknown", <<S(line[1])>>)
                     ELSE add_fact(kb, fact[1], fact[2])
    IN  Add(FactOf(Strip(line, ".")))

_parse_ace_fact(kb, line) ==
    LET Add(fact) == IF fact = None THEN kb ELSE add_fact(kb, fact[1], fact[2])
    IN  Add(FactOf(Strip(line, ".")))

\* a kindergeld rule that does not ask for the tax residence
_add_kindergeld_rules_anywhere(kb) ==
    add_rule(kb,
        <<"eligible_for_kindergeld", <<S("_person")>> >>,
        << <<"person", <<S("_person")>> >>,
           <<"has_child", <<S("_person"), S("_child")>> >>,
           <<"income_less_than", <<S("_person"), I(68000)>> >>,
           <<"has_child_under_18", <<S("_person")>> >> >>)

_add_kindergeld_rules(kb) ==
    add_rule(kb,
        <<"eligible_for_kindergeld", <<S("_person")>> >>,
        << <<"person", <<S("_person")>> >>,
           <<"has_child", <<S("_person"), S("_child")>> >>,
           <<"income_less_than", <<S("_person"), I(68000)>> >>,
           <<"has_child_under_18", <<S("_person")>> >>,
           <<"tax_residence", <<S("_person"), S("germany")>> >> >>)

_add_tax_relief_rules(kb) ==
    add_rule(kb,
        <<"eligible_for_low_income_tax_relief", <<S("_person")>> >>,
        << <<"person", <<S("_person")>> >>,
           <<"income_less_than", <<S("_person"), I(30000)>> >>,
           <<"tax_residence", <<S("_person"), S("germany")>> >> >>)

\* a student support rule that asks for the tax relief another rule derives
_add_student_support_rules_chained(kb) ==
    add_rule(kb,
        <<"eligible_for_student_support", <<S("_person")>> >>,
        << <<"student", <<S("_person")>> >>,
           <<"eligible_for_low_income_tax_relief", <<S("_person")>> >> >>)

_add_student_support_rules(kb) ==
    add_rule(kb,
        <<"eligible_for_student_support", <<S("_person")>> >>,
        << <<"student", <<S("_person")>> >>,
           <<"age_less_than", <<S("_person"), I(25)>> >> >>)

\* for fact in lines: self._parse_ace_fact(fact)
RECURSIVE LoadFacts(_, _, _)
LoadFacts(kb, lines, k) ==
    IF k > Len(lines) THEN kb
    ELSE LET Rest(next) ==
                 IF Len(next.execution_trace) = Len(kb.execution_trace)
                 THEN LoadFacts(kb, lines, k + 1)      \* the line added nothing
                 ELSE LoadFacts(next, lines, k + 1)
         IN  Rest(_parse_ace_fact(kb, lines[k]))

\* custom_facts.strip(): the text has a line that is not blank
NotBlank(text) == \E k \in 1..Len(text) : text[k] # <<>>

\* the caller's lines whatever the text, and no sample database
LoadText_custom(kb, facts_text) ==
    LoadFacts(kb, SelectSeq(facts_text, LAMBDA line : line # <<>>), 1)

\* the "Load facts" block of parse_ace_rules_with_custom_facts
LoadText(kb, facts_text) ==
    IF NotBlank(facts_text)
    THEN LoadFacts(kb, SelectSeq(facts_text, LAMBDA line : line # <<>>), 1)
    ELSE LoadFacts(kb, sql_to_ace, 1)

\* a kindergeld rule for each of the two trigger words found
KindergeldTrigger_each(kb, rules_text) ==
    LET first == IF Contains(LowerText(rules_text), "kindergeld")
                 THEN _add_kindergeld_rules(kb) ELSE kb
    IN  IF PhraseAt(rules_text, <<"If", "a", "person", "has", "children">>) # {}
        THEN _add_kindergeld_rules(first) ELSE first

\* the three "Parse and add rules" conditionals
KindergeldTrigger(kb, rules_text) ==
    IF \/ Contains(LowerText(rules_text), "kindergeld")
       \/ PhraseAt(rules_text, <<"If", "a", "person", "has", "children">>) # {}
    THEN _add_kindergeld_rules(kb) ELSE kb

TaxReliefTrigger(kb, rules_text) ==
    IF \/ Contains(LowerText(rules_text), "tax_relief")
       \/ Contains(LowerText(rules_text), "low_income_tax_relief")
    THEN _add_tax_relief_rules(kb) ELSE kb

StudentSupportTrigger(kb, rules_text) ==
    IF Contains(LowerText(rules_text), "student_support")
    THEN _add_student_support_rules(kb) ELSE kb

parse_ace_rules_with_custom_facts(kb, rules_text, facts_text) ==
    StudentSupportTrigger(
        TaxReliefTrigger(
            KindergeldTrigger(LoadText(clear(kb), facts_text), rules_text),
            rules_text),
        rules_text)

-----------------------------------------------------------------------------
(* SemanticBrowser.execute_query *)

Fallback == <<"I couldn't parse that query. Please try one of the example queries.">>

\* ', '.join(names)
RECURSIVE JoinComma(_)
JoinComma(names) ==
    IF names = <<>> THEN <<>>
    ELSE IF Len(names) = 1 THEN <<names[1].str>>
    ELSE <<names[1].str, ", ">> \o JoinComma(Tail(names))

\* len(self.prolog.facts): the predicates counted, not their tuples
SumLen_predicates(fs, preds) == Cardinality(preds)

\* sum(len(facts) for facts in self.prolog.facts.values())
RECURSIVE SumLen(_, _)
SumLen(fs, preds) ==
    IF preds = {} THEN 0
    ELSE LET p == CHOOSE x \in preds : TRUE
         IN  Len(fs[p]) + SumLen(fs, preds \ {p})

\* the loop that lists a name once however often it is stored
RECURSIVE EligibleLoop_once(_, _, _, _, _)
EligibleLoop_once(kb, now, persons, k, eligible_persons) ==
    IF k > Len(persons) THEN [err |-> NoError, value |-> eligible_persons, kb |-> kb]
    ELSE LET Queried(r) ==
                 IF r.err # NoError
                 THEN [err |-> r.err, value |-> eligible_persons, kb |-> r.kb]
                 ELSE EligibleLoop_once(r.kb, now, persons, k + 1,
                         IF /\ r.results # <<>>
                            /\ \A j \in 1..Len(eligible_persons) :
                                  eligible_persons[j] # persons[k][1]
                         THEN Append(eligible_persons, persons[k][1])
                         ELSE eligible_persons)
         IN  Queried(query(kb, now, "eligible_for_kindergeld", <<persons[k][1]>>))

\* the loop `for (person,) in persons` of the "who ... eligible ... kindergeld"
\* branch, from index k on: [err, value, kb], value = eligible_persons
RECURSIVE EligibleLoop(_, _, _, _, _)
EligibleLoop(kb, now, persons, k, eligible_persons) ==
    IF k > Len(persons) THEN [err |-> NoError, value |-> eligible_persons, kb |-> kb]
    ELSE LET Queried(r) ==
                 IF r.err # NoError
                 THEN [err |-> r.err, value |-> eligible_persons, kb |-> r.kb]
                 ELSE EligibleLoop(r.kb, now, persons, k + 1,
                                   IF r.results # <<>>
                                   THEN Append(eligible_persons, persons[k][1])
                                   ELSE eligible_persons)
         IN  Queried(query(kb, now, "eligible_for_kindergeld", <<persons[k][1]>>))

\* the first items of the has_child tuples
ParentSet(fs) ==
    IF "has_child" \in DOMAIN fs
    THEN {fs["has_child"][k][1] : k \in 1..Len(fs["has_child"])}
    ELSE {}

\* the lists list(set(...)) can return for a set: its elements in any order
ListsOfSet(set) ==
    {order \in [1..Cardinality(set) -> set] :
        \A i, j \in 1..Cardinality(set) : i # j => order[i] # order[j]}

\* the "is " branch answering Yes only for a single result
IsBranch_single(kb, now, query_lower) ==
    LET person == query_lower[2]
        Kindergeld(r) ==
            [err |-> r.err, kb |-> r.kb,
             answer |-> IF Len(r.results) = 1
                        THEN <<"Yes, ", person, " is eligible for Kindergeld.">>
                        ELSE <<"No, ", person, " is not eligible for Kindergeld.">>,
             results |-> IF Len(r.results) = 1
                         THEN <<[result |-> "eligible", person |-> person,
                                 benefit |-> "Kindergeld"]>>
                         ELSE <<>>]
        TaxRelief(r) ==
            [err |-> r.err, kb |-> r.kb, results |-> <<>>,
             answer |-> IF r.results # <<>>
                        THEN <<"Yes, ", person, " is eligible for low income tax relief.">>
                        ELSE <<"No, ", person,
                               " is not eligible for low income tax relief.">>]
    IN  IF Contains(query_lower, "eligible")
        THEN IF Contains(query_lower, "kindergeld")
             THEN Kindergeld(query(kb, now, "eligible_for_kindergeld", <<S(person)>>))
             ELSE IF Contains(query_lower, "tax_relief")
             THEN TaxRelief(query(kb, now, "eligible_for_low_income_tax_relief",
                                  <<S(person)>>))
             ELSE [err |-> NoError, kb |-> kb, results |-> <<>>, answer |-> <<>>]
        ELSE [err |-> NoError, kb |-> kb, results |-> <<>>, answer |-> <<>>]

\* the "is " branch: [err, results, answer, kb]
IsBranch(kb, now, query_lower) ==
    LET person == query_lower[2]
        Kindergeld(r) ==
            [err |-> r.err, kb |-> r.kb,
             answer |-> IF r.results # <<>>
                        THEN <<"Yes, ", person, " is eligible for Kindergeld.">>
                        ELSE <<"No, ", person, " is not eligible for Kindergeld.">>,
             results |-> IF r.results # <<>>
                         THEN <<[result |-> "eligible", person |-> person,
                                 benefit |-> "Kindergeld"]>>
                         ELSE <<>>]
        TaxRelief(r) ==
            [err |-> r.err, kb |-> r.kb, results |-> <<>>,
             answer |-> IF r.results # <<>>
                        THEN <<"Yes, ", person, " is eligible for low income tax relief.">>
                        ELSE <<"No, ", person,
                               " is not eligible for low income tax relief.">>]
    IN  IF Contains(query_lower, "eligible")
        THEN IF Contains(query_lower, "kindergeld")
             THEN Kindergeld(query(kb, now, "eligible_for_kindergeld", <<S(person)>>))
             ELSE IF Contains(query_lower, "tax_relief")
             THEN TaxRelief(query(kb, now, "eligible_for_low_income_tax_relief",
                                  <<S(person)>>))
             ELSE [err |-> NoError, kb |-> kb, results |-> <<>>, answer |-> <<>>]
        ELSE [err |-> NoError, kb |-> kb, results |-> <<>>, answer |-> <<>>]

\* the "who " branch: the set of [err, results, answer, kb] it can give, one
\* for each order in which list(set(...)) can list the parents
WhoBranch(kb, now, query_lower) ==
    LET Eligible(r) ==
            [err |-> r.err, kb |-> r.kb,
             answer |-> IF r.value # <<>>
                        THEN <<"Eligible for Kindergeld: ">> \o JoinComma(r.value)
                        ELSE <<"No one is eligible for Kindergeld.">>,
             results |-> [k \in 1..Len(r.value) |->
                             [person |-> r.value[k].str, benefit |-> "Kindergeld"]]]
        Children(parents) ==
            [err |-> NoError, kb |-> kb,
             answer |-> IF parents # <<>>
                        THEN <<"People with children: ">> \o JoinComma(parents)
                        ELSE <<"No one has children.">>,
             results |-> [k \in 1..Len(parents) |->
                             [person |-> parents[k].str, has |-> "children"]]]
    IN  IF Contains(query_lower, "eligible") /\ Contains(query_lower, "kindergeld")
        THEN {Eligible(EligibleLoop(kb, now,
                                    IF "person" \in DOMAIN kb.facts
                                    THEN kb.facts["person"] ELSE <<>>,
                                    1, <<>>))}
        ELSE IF Contains(query_lower, "children")
        THEN IF "has_child" \in DOMAIN kb.facts
             THEN IF \E k \in 1..Len(kb.facts["has_child"]) :
                         Len(kb.facts["has_child"][k]) # 2
                  THEN {[err |-> ValueError2, kb |-> kb, results |-> <<>>,
                         answer |-> <<>>]}
                  ELSE {Children(parents) : parents \in ListsOfSet(ParentSet(kb.facts))}
             ELSE {[err |-> NoError, kb |-> kb, results |-> <<>>, answer |-> <<>>]}
        ELSE {[err |-> NoError, kb |-> kb, results |-> <<>>, answer |-> <<>>]}

\* the body of the try block after the knowledge base is loaded: the set of
\* [err, results, answer, kb] it can give
Dispatch(kb, now, query_lower) ==
    IF Len(query_lower) >= 2 /\ query_lower[1] = "is"
    THEN {IsBranch(kb, now, query_lower)}
    ELSE IF Len(query_lower) >= 2 /\ query_lower[1] = "who"
    THEN WhoBranch(kb, now, query_lower)
    ELSE {[err |-> NoError, kb |-> kb, results |-> <<>>, answer |-> <<>>]}

\* the return statements without the fallback answer
Return_unanswered(r) ==
    IF r.err = NoError
    THEN [kb |-> r.kb,
          result |->
            [success |-> TRUE,
             results |-> r.results,
             answer |-> r.answer,
             execution_trace |-> r.kb.execution_trace,
             facts_count |-> SumLen(r.kb.facts, DOMAIN r.kb.facts),
             rules_count |-> Len(r.kb.rules)]]
    ELSE [kb |-> r.kb,
          result |-> [success |-> FALSE, error |-> r.err,
                      execution_trace |-> r.kb.execution_trace]]

\* the return statements: the try block gave r
Return(r) ==
    IF r.err = NoError
    THEN [kb |-> r.kb,
          result |->
            [success |-> TRUE,
             results |-> r.results,
             answer |-> IF r.answer = <<>> THEN Fallback ELSE r.answer,
             execution_trace |-> r.kb.execution_trace,
             facts_count |-> SumLen(r.kb.facts, DOMAIN r.kb.facts),
             rules_count |-> Len(r.kb.rules)]]
    ELSE [kb |-> r.kb,
          result |-> [success |-> FALSE, error |-> r.err,
                      execution_trace |-> r.kb.execution_trace]]

\* the set of [kb, result] a call can give: the engine after the call and the
\* record the call returns
execute_query(kb, now, rules_text, query_str, facts_text) ==
    {Return(r) : r \in Dispatch(parse_ace_rules_with_custom_facts(kb, rules_text, facts_text),
                                now, Strip(LowerText(query_str), "?"))}

-----------------------------------------------------------------------------------------------------------------------------------------------------
(* The texts the calls are made with *)

\* the most lines a fact text of a single call has
MaxLines == 4
\* the most lines a fact text has in a sequence of calls
MaxSeqLines == 2

FactLines ==
    << <<"maria", "is", "a", "person", ".">>,
       <<"maria", "has", "child", "c1", ".">>,
       <<"maria", "has", "a", "yearly_income", "of", "90000", "euros", ".">>,
       <<"maria", "has", "a", "yearly_income", "of", "45000", "euros", ".">>,
       <<"maria", "has", "tax_residence", "in", "Germany", ".">>,
       <<"c1", "has", "a", "birthdate", "of", "2000-06-15", ".">>,
       <<"maria", "is", "a", "yearly_income", ".">>,
       <<"c1", "is", "a", "birthdate", ".">>,
       <<"maria", "is", "a", "has_child", ".">>,
       <<"maria", "has", "a", "yearly_income", "of", "lots", "euros", ".">>,
       <<"c1", "has", "a", "birthdate", "of", "2015-1-1">>,
       <<"maria", "likes", "cake", ".">>,
       <<"maria", "is", "a", "eligible_for_kindergeld", ".">>,
       <<"maria", "is", "a", "person">>,
       <<"maria", "is", "a", "eligible_for_kindergeld">> >>

SeqFactLines ==
    << <<"maria", "is", "a", "person", ".">>,
       <<"maria", "has", "child", "c1", ".">>,
       <<"maria", "is", "a", "has_child", ".">>,
       <<"maria", "is", "a", "eligible_for_kindergeld", ".">> >>

\* the lines of `lines` at the positions in `chosen`, in their order
RECURSIVE Pick(_, _, _)
Pick(lines, chosen, k) ==
    IF k > Len(lines) THEN <<>>
    ELSE (IF k \in chosen THEN <<lines[k]>> ELSE <<>>) \o Pick(lines, chosen, k + 1)

\* the fact texts of at most n of the lines; the text of no line is the blank
\* text, for which the call loads the sample database
FactTextsUpTo(lines, n) ==
    {Pick(lines, chosen, 1) :
        chosen \in {c \in SUBSET (1..Len(lines)) : Cardinality(c) <= n}}

FactTexts == FactTextsUpTo(FactLines, MaxLines)
SeqFactTexts == FactTextsUpTo(SeqFactLines, MaxSeqLines)

KindergeldRules ==
    <<"If", "a", "person", "has", "children", "and", "the", "person", "has",
      "tax_residence", "in", "Germany", "then", "the", "person", "is", "eligible",
      "for", "Kindergeld", ".">>
TaxRules ==
    <<"If", "a", "person", "has", "tax_residence", "in", "Germany", "then", "the",
      "person", "is", "eligible", "for", "low_income_tax_relief", ".">>
StudentRules ==
    <<"If", "a", "person", "is", "a", "student", "then", "the", "person", "is",
      "eligible", "for", "student_support", ".">>

RuleTexts == {<<>>, KindergeldRules, KindergeldRules \o TaxRules \o StudentRules}

QueryTexts ==
    { <<"Is", "Maria", "eligible", "for", "Kindergeld", "?">>,
      <<"Is", "hans_mueller", "eligible", "for", "Kindergeld", "?">>,
      <<"Is", "hans_mueller", "eligible", "for", "tax_relief", "?">>,
      <<"Is", "peter_jung", "eligible", "for", "student_support", "?">>,
      <<"Is", "maria", "happy", "?">>,
      <<"Who", "is", "eligible", "for", "Kindergeld", "?">>,
      <<"Who", "has", "children", "?">>,
      <<"Who", "has", "a", "child", "?">>,
      <<"What", "is", "the", "kindergeld_amount", "for", "maria_schmidt", "?">>,
      <<"Blah", "blah">> }

SeqQueryTexts ==
    { <<"Is", "Maria", "eligible", "for", "Kindergeld", "?">>,
      <<"Who", "is", "eligible", "for", "Kindergeld", "?">>,
      <<"Who", "has", "children", "?">>,
      <<"Blah", "blah">> }

\* the values of date.today()
Dates == {<<2017, 6, 1>>, <<2026, 11, 5>>}

DateLeq(a, b) ==
    \/ a[1] < b[1]
    \/ a[1] = b[1] /\ a[2] < b[2]
    \/ a[1] = b[1] /\ a[2] = b[2] /\ a[3] <= b[3]

-----------------------------------------------------------------------------
(* The state machine *)

KB == [facts |-> facts, rules |-> rules, execution_trace |-> execution_trace]

NoResult == [called |-> FALSE]

\* one call execute_query(r, q, f) on the date t; `dropped` records whether
\* the engine held, when the call began, a fact predicate it no longer holds
Call(r, q, f, t) ==
    \E out \in execute_query(KB, t, r, q, f) :
        /\ facts' = out.kb.facts
        /\ rules' = out.kb.rules
        /\ execution_trace' = out.kb.execution_trace
        /\ result' = out.result
        /\ ace_rules' = r
        /\ query_text' = q
        /\ custom_facts' = f
        /\ today' = t
        /\ dropped' = (\E p \in DOMAIN facts : p \notin DOMAIN out.kb.facts)

\* SemanticBrowser.__init__, before any call
Init ==
    /\ facts = NewEngine.facts
    /\ rules = NewEngine.rules
    /\ execution_trace = NewEngine.execution_trace
    /\ result = NoResult
    /\ ace_rules = <<>>
    /\ query_text = <<>>
    /\ custom_facts = <<>>
    /\ today = <<2017, 6, 1>>
    /\ dropped = FALSE

\* any call, on the day of the previous one or later
ExecuteQuery ==
    \E r \in RuleTexts, q \in SeqQueryTexts, f \in SeqFactTexts, t \in Dates :
        /\ DateLeq(today, t)
        /\ Call(r, q, f, t)

Next == ExecuteQuery

Spec == Init /\ [][Next]_vars

\* a new SemanticBrowser and the arguments of its first call
InitCall ==
    /\ facts = NewEngine.facts
    /\ rules = NewEngine.rules
    /\ execution_trace = NewEngine.execution_trace
    /\ result = NoResult
    /\ ace_rules \in RuleTexts
    /\ query_text \in QueryTexts
    /\ custom_facts \in FactTexts
    /\ today \in Dates
    /\ dropped = FALSE

FirstCall ==
    /\ result = NoResult
    /\ Call(ace_rules, query_text, custom_facts, today)

NextCall == FirstCall

SpecCall == InitCall /\ [][NextCall]_vars

-----------------------------------------------------------------------------
(* What a call was given and what it loaded *)

\* query.lower().strip('?').strip(), split into its words
QueryLower == Strip(LowerText(query_text), "?")

\* the knowledge base parse_ace_rules_with_custom_facts builds from the latest
\* call's own rule text and fact text, starting from an empty engine
Loaded == parse_ace_rules_with_custom_facts(NewEngine, ace_rules, custom_facts)

\* the conditions of the branches of execute_query on the latest query
IsEligibleQuery ==
    /\ Len(QueryLower) >= 2
    /\ QueryLower[1] = "is"
    /\ Contains(QueryLower, "eligible")
IsKindergeldQuery == IsEligibleQuery /\ Contains(QueryLower, "kindergeld")
IsTaxReliefQuery ==
    /\ IsEligibleQuery
    /\ ~Contains(QueryLower, "kindergeld")
    /\ Contains(QueryLower, "tax_relief")
WhoQuery == Len(QueryLower) >= 2 /\ QueryLower[1] = "who"
WhoEligibleQuery ==
    /\ WhoQuery
    /\ Contains(QueryLower, "eligible")
    /\ Contains(QueryLower, "kindergeld")
WhoChildrenQuery ==
    /\ WhoQuery
    /\ ~WhoEligibleQuery
    /\ Contains(QueryLower, "children")

-----------------------------------------------------------------------------
(* C1 *)

\* C1: after any sequence of execute_query calls the fact store, the rule base
\* and the execution trace, and with them the returned record (answer,
\* facts_count, rules_count, trace), are those of the latest call made on an
\* empty engine with the same rule text, query and fact text (on the same
\* day): nothing of an earlier call survives.
C1_OnlyLatestCall ==
    result # NoResult =>
        /\ [kb |-> KB, result |-> result]
              \in execute_query(NewEngine, today, ace_rules, query_text, custom_facts)
        /\ facts = Loaded.facts
        /\ rules = Loaded.rules

\* a call that began with facts of an earlier call in the engine and returned
\* counting one fact and no rule
C1_Witness ==
    /\ result # NoResult
    /\ dropped
    /\ result.success
    /\ result.facts_count = 1
    /\ result.rules_count = 0

-----------------------------------------------------------------------------
(* C2 *)

-----------------------------------------------------------------------------
(* C3 *)

\* C3: a query that no branch of execute_query recognizes returns success,
\* no result row and the fixed answer "I couldn't parse that query. Please try
\* one of the example queries.", whatever rules and facts were supplied, and
\* never the error record.
C3_UnrecognizedFallback ==
    (/\ result # NoResult
     /\ ~IsKindergeldQuery /\ ~IsTaxReliefQuery
     /\ ~WhoEligibleQuery /\ ~WhoChildrenQuery) =>
        /\ result.success
        /\ result.results = <<>>
        /\ result.answer =
              <<"I couldn't parse that query. Please try one of the example queries.">>

\* "Blah blah" asked over facts of the wrong arity, with rules loaded
C3_Witness ==
    /\ result # NoResult
    /\ query_text = <<"Blah", "blah">>
    /\ "yearly_income" \in DOMAIN facts
    /\ Len(facts["yearly_income"][1]) = 1
    /\ rules # <<>>
    /\ result.success

-----------------------------------------------------------------------------
(* C4 *)

\* C4: every call returns a record. A failure is returned as a record with
\* success = false, an error message and the engine's execution trace up to
\* the failure, without answer or results; so when the Kindergeld rule's
\* income test reads a yearly_income tuple of one item that an "<id> is a
\* yearly_income" line created, the record carries the IndexError and the
\* trace ends with the sub-query that preceded the test.
C4_FailureRecord ==
    result # NoResult =>
        /\ result.success \in BOOLEAN
        /\ ~result.success =>
              /\ DOMAIN result = {"success", "error", "execution_trace"}
              /\ result.error \in {IndexError, ValueError2, ValueError3}
              /\ result.execution_trace = execution_trace
              /\ Len(execution_trace) >= Len(Loaded.execution_trace)
              /\ SubSeq(execution_trace, 1, Len(Loaded.execution_trace))
                    = Loaded.execution_trace
        /\ LET p == QueryLower[2]
               fs == Loaded.facts
               first == Min({k \in 1..Len(fs["yearly_income"]) :
                                fs["yearly_income"][k][1] = S(p)})
           IN  (/\ IsKindergeldQuery
                /\ Len(Loaded.rules) >= 1
                /\ Loaded.rules[1][1][1] = "eligible_for_kindergeld"
                /\ {"person", "has_child", "yearly_income"} \subseteq DOMAIN fs
                /\ \E k \in 1..Len(fs["person"]) : fs["person"][k] = <<S(p)>>
                /\ \E k \in 1..Len(fs["has_child"]) :
                      Len(fs["has_child"][k]) = 2 /\ fs["has_child"][k][1] = S(p)
                /\ \E k \in 1..Len(fs["yearly_income"]) :
                      fs["yearly_income"][k][1] = S(p)
                /\ Len(fs["yearly_income"][first]) = 1) =>
                   /\ ~result.success
                   /\ result.error = IndexError
                   /\ execution_trace[Len(execution_trace)] =
                         [kind |-> "Query", predicate |-> "has_child",
                          args |-> <<S(p), S("_child")>>]

\* the income test failed on the tuple of "maria is a yearly_income"
C4_Witness ==
    /\ result # NoResult
    /\ IsKindergeldQuery
    /\ ~result.success
    /\ result.error = IndexError
    /\ Len(result.execution_trace) >= 4

-----------------------------------------------------------------------------
(* C5 *)

\* the fact lines of FactLines that have no fixed shape: a yearly income that
\* is no number, a birthdate that is not YYYY-MM-DD, and a line with no
\* keyword phrase
MalformedLines ==
    { <<"maria", "has", "a", "yearly_income", "of", "lots", "euros", ".">>,
      <<"c1", "has", "a", "birthdate", "of", "2015-1-1">>,
      <<"maria", "likes", "cake", ".">> }

\* C5: fact lines without a fixed shape add no fact and no trace entry and
\* raise no error: the engine and the returned record are those of the same
\* call without these lines, and when the text has only such lines the store
\* stays empty and the call succeeds.
C5_MalformedIgnored ==
    (result # NoResult /\ \E k \in 1..Len(custom_facts) : custom_facts[k] \in MalformedLines) =>
        LET kept == SelectSeq(custom_facts, LAMBDA line : line \notin MalformedLines)
        IN  IF kept # <<>>
            THEN [kb |-> KB, result |-> result]
                    \in execute_query(NewEngine, today, ace_rules, query_text, kept)
            ELSE /\ DOMAIN facts = {}
                 /\ \A k \in 1..Len(execution_trace) :
                       execution_trace[k].kind # "Added fact"
                 /\ result.success

\* a successful call whose fact text had a malformed line between two lines
\* that were loaded
C5_Witness ==
    /\ result # NoResult
    /\ Len(custom_facts) = 3
    /\ custom_facts[2] \in MalformedLines
    /\ result.success
    /\ result.facts_count = 2

-----------------------------------------------------------------------------
(* C6 *)

\* C6: in a successful result facts_count is the number of tuples in the
\* fact store, all predicates together and duplicates included, which is the
\* number of fact lines accepted, and rules_count is the number of rules.
C6_Counts ==
    (result # NoResult /\ result.success) =>
        /\ result.facts_count =
              Cardinality(UNION {{<<p, k>> : k \in 1..Len(facts[p])} :
                                    p \in DOMAIN facts})
        /\ result.facts_count =
              Cardinality({k \in 1..Len(execution_trace) :
                              execution_trace[k].kind = "Added fact"})
        /\ result.rules_count = Len(rules)
        /\ result.rules_count =
              Cardinality({k \in 1..Len(execution_trace) :
                              execution_trace[k].kind = "Added rule"})

\* two predicates, one of them with a duplicated fact, and three rules
C6_Witness ==
    /\ result # NoResult
    /\ result.success
    /\ result.facts_count = 3
    /\ Cardinality(DOMAIN facts) = 2
    /\ result.rules_count = 3

-----------------------------------------------------------------------------
(* C7 *)

\* C7: a query starting with "what" and containing "kindergeld_amount"
\* reports, for an eligible person with n has_child facts, the amount 250 n for
\* n < 3 and 750 + 250 (n - 3) for n >= 3, and for a person who is not
\* eligible it reports ineligibility.
C7_KindergeldAmount ==
    (/\ result # NoResult
     /\ Len(QueryLower) >= 2
     /\ QueryLower[1] = "what"
     /\ \E k \in 1..Len(QueryLower) : QueryLower[k] = "kindergeld_amount") =>
        LET p == QueryLower[Len(QueryLower)]
            q == query(Loaded, today, "eligible_for_kindergeld", <<S(p)>>)
            n == IF "has_child" \in DOMAIN facts
                 THEN Cardinality({k \in 1..Len(facts["has_child"]) :
                                      facts["has_child"][k][1] = S(p)})
                 ELSE 0
            amount == IF n < 3 THEN 250 * n ELSE 750 + 250 * (n - 3)
        IN  q.err = NoError =>
                /\ result.success
                /\ result.answer # Fallback
                /\ q.results # <<>> =>
                      \E k \in 1..Len(result.results) : result.results[k].amount = amount

-----------------------------------------------------------------------------
(* C8 *)

\* C8: for a query starting with "is" that contains "eligible", each of the
\* keywords kindergeld, tax_relief and student_support leads to a yes/no
\* sentence naming the person (the second token) and the benefit, never to the
\* fallback message.
C8_ThreeBenefits ==
    (/\ result # NoResult
     /\ IsEligibleQuery
     /\ \/ Contains(QueryLower, "kindergeld")
        \/ Contains(QueryLower, "tax_relief")
        \/ Contains(QueryLower, "student_support")
     /\ result.success) =>
        /\ result.answer # Fallback
        /\ Len(result.answer) = 3
        /\ result.answer[1] \in {"Yes, ", "No, "}
        /\ result.answer[2] = QueryLower[2]

-----------------------------------------------------------------------------
(* C9 *)

\* C9: for a "who" query with "eligible" and "kindergeld", when the queries
\* return, the names in the answer and in the result rows are the entries of
\* the person fact list, in insertion order and as often as they are stored,
\* for which query(eligible_for_kindergeld, name) has a result; when there is
\* none the answer is "No one is eligible for Kindergeld." with no rows.
C9_WhoEligible ==
    (result # NoResult /\ WhoEligibleQuery) =>
        LET persons == IF "person" \in DOMAIN facts THEN facts["person"] ELSE <<>>
            q(t) == query(Loaded, today, "eligible_for_kindergeld", t)
            names == SelectSeq(persons, LAMBDA t : q(t).results # <<>>)
        IN  (\A k \in 1..Len(persons) : q(persons[k]).err = NoError) =>
                /\ result.success
                /\ Len(result.results) = Len(names)
                /\ \A k \in 1..Len(names) :
                      result.results[k] =
                          [person |-> names[k][1].str, benefit |-> "Kindergeld"]
                /\ names # <<>> =>
                      result.answer = <<"Eligible for Kindergeld: ">>
                                      \o JoinComma([k \in 1..Len(names) |-> names[k][1]])
                /\ names = <<>> =>
                      result.answer = <<"No one is eligible for Kindergeld.">>

\* a person stored twice and listed twice
C9_Witness ==
    /\ result # NoResult
    /\ WhoEligibleQuery
    /\ result.success
    /\ Len(result.results) = 2
    /\ result.results[1] = result.results[2]

-----------------------------------------------------------------------------
(* C10 *)

\* C10: a "who" query that is no eligibility query and contains the word
\* "children" or the word "child" lists the parents of the has_child facts in
\* its result rows, each exactly once.
C10_WhoChildOrChildren ==
    (/\ result # NoResult
     /\ WhoQuery
     /\ ~WhoEligibleQuery
     /\ \E k \in 1..Len(QueryLower) : QueryLower[k] \in {"children", "child"}
     /\ result.success) =>
        /\ {result.results[k].person : k \in 1..Len(result.results)}
              = {parent.str : parent \in ParentSet(facts)}
        /\ Len(result.results) = Cardinality(ParentSet(facts))

-----------------------------------------------------------------------------
(* Rule activation: parse_ace_rules_with_custom_facts on rule-set texts *)

\* the most sentences a rule-set text has
MaxRuleSentences == 3

RuleSentences ==
    << <<"If", "a", "person", "has", "children", "then", "the", "person", "gets",
         "support", ".">>,
       <<"if", "a", "person", "has", "children", "then", "the", "person", "gets",
         "support", ".">>,
       <<"The", "person", "is", "eligible", "for", "kindergeld", ".">>,
       <<"The", "person", "is", "eligible", "for", "KINDERGELD", ".">>,
       <<"The", "person", "is", "eligible", "for", "Tax_Relief", ".">>,
       <<"The", "person", "is", "eligible", "for", "low_income_tax_relief", ".">>,
       <<"The", "person", "is", "eligible", "for", "student_support", ".">>,
       <<"The", "person", "is", "eligible", "for", "Student_Support", ".">>,
       <<"The", "person", "pays", "taxes", ".">> >>

\* the sentences of RuleSentences at the positions in `chosen`, one after the
\* other
RECURSIVE JoinSentences(_, _)
JoinSentences(chosen, k) ==
    IF k > Len(RuleSentences) THEN <<>>
    ELSE (IF k \in chosen THEN RuleSentences[k] ELSE <<>>) \o JoinSentences(chosen, k + 1)

TriggerTexts ==
    {JoinSentences(chosen, 1) :
        chosen \in {c \in SUBSET (1..Len(RuleSentences)) :
                       Cardinality(c) <= MaxRuleSentences}}

\* a rule with the head predicate `head_pred` is in the rule base
HasRule(head_pred) == \E k \in 1..Len(rules) : rules[k][1][1] = head_pred

\* a new SemanticBrowser and the texts of its first load
InitRules ==
    /\ facts = NewEngine.facts
    /\ rules = NewEngine.rules
    /\ execution_trace = NewEngine.execution_trace
    /\ result = NoResult
    /\ ace_rules \in TriggerTexts
    /\ query_text = <<>>
    /\ custom_facts = << <<"maria", "is", "a", "person", ".">> >>
    /\ today = <<2026, 11, 5>>
    /\ dropped = FALSE

\* parse_ace_rules_with_custom_facts(ace_rules, custom_facts), which returns
\* nothing
LoadRules ==
    /\ result = NoResult
    /\ \E kb \in {parse_ace_rules_with_custom_facts(KB, ace_rules, custom_facts)} :
          /\ facts' = kb.facts
          /\ rules' = kb.rules
          /\ execution_trace' = kb.execution_trace
    /\ result' = [loaded |-> TRUE]
    /\ UNCHANGED <<ace_rules, query_text, custom_facts, today, dropped>>

NextRules == LoadRules

SpecRules == InitRules /\ [][NextRules]_vars

-----------------------------------------------------------------------------
(* C11 *)

\* C11: every trigger of rule activation is case-insensitive: the kindergeld
\* rule is added iff the rule-set text contains, in any letter case,
\* "kindergeld" or the phrase "If a person has children"; the tax-relief rule
\* iff it contains "tax_relief" or "low_income_tax_relief"; the student-support
\* rule iff it contains "student_support"; a text with no trigger adds no rule.
C11_TriggersAnyCase ==
    result = [loaded |-> TRUE] =>
        LET lower == LowerText(ace_rules)
            kindergeld ==
                \/ Contains(lower, "kindergeld")
                \/ PhraseAt(lower, <<"if", "a", "person", "has", "children">>) # {}
            tax_relief ==
                \/ Contains(lower, "tax_relief")
                \/ Contains(lower, "low_income_tax_relief")
            student_support == Contains(lower, "student_support")
        IN  /\ HasRule("eligible_for_kindergeld") <=> kindergeld
            /\ HasRule("eligible_for_low_income_tax_relief") <=> tax_relief
            /\ HasRule("eligible_for_student_support") <=> student_support
            /\ Len(rules) = Cardinality({b \in {kindergeld} : b})
                            + Cardinality({b \in {tax_relief} : b})
                            + Cardinality({b \in {student_support} : b})

-----------------------------------------------------------------------------
(* The unifier on its own: _try_unify applied to a pattern and a fact tuple *)

\* the longest tuple unified
MaxArity == 3

Terms == {S("a"), I(1), S("_x"), S("_y")}

TermTuples == UNION {[1..k -> Terms] : k \in 0..MaxArity}

Ground(t) == \A i \in 1..Len(t) : ~IsVar(t[i])
AllVariable(t) == \A i \in 1..Len(t) : IsVar(t[i])

\* the positions of tuple t that hold the variable named v
PositionsOf(t, v) == {i \in 1..Len(t) : t[i] = S(v)}

InitUnify ==
    /\ facts = NewEngine.facts
    /\ rules = NewEngine.rules
    /\ execution_trace = NewEngine.execution_trace
    /\ \E pattern \in TermTuples, fact \in TermTuples :
          result = [pattern |-> pattern, fact |-> fact]
    /\ ace_rules = <<>>
    /\ query_text = <<>>
    /\ custom_facts = <<>>
    /\ today = <<2026, 11, 5>>
    /\ dropped = FALSE

\* self._try_unify(pattern, fact)
Unify ==
    /\ "bindings" \notin DOMAIN result
    /\ result' = [pattern |-> result.pattern, fact |-> result.fact,
                  bindings |-> _try_unify(result.pattern, result.fact)]
    /\ UNCHANGED <<facts, rules, execution_trace, ace_rules, query_text,
                   custom_facts, today, dropped>>

NextUnify == Unify

SpecUnify == InitUnify /\ [][NextUnify]_vars

UnifyDone == "bindings" \in DOMAIN result

-----------------------------------------------------------------------------
(* C12 *)

\* C12 as stated: for every ground tuple F and every all-variable pattern P of
\* the same length, _try_unify(P, F) binds every variable of P to the element
\* of F at the same position, and _try_unify(F, P) yields the same bindings.
C12_Symmetry ==
    (/\ UnifyDone
     /\ AllVariable(result.pattern)
     /\ Ground(result.fact)
     /\ Len(result.pattern) = Len(result.fact))
    => /\ result.bindings # None
       /\ \A i \in 1..Len(result.pattern) :
             /\ result.pattern[i].str \in DOMAIN result.bindings
             /\ result.bindings[result.pattern[i].str] = result.fact[i]
       /\ _try_unify(result.fact, result.pattern) = result.bindings

\* every variable of P that stands at several positions meets equal elements
\* of F there
RepeatsAgree(P, F) ==
    \A i, j \in 1..Len(P) : P[i] = P[j] => F[i] = F[j]

\* C12 amended: for every ground tuple F and every all-variable pattern P of
\* the same length, _try_unify(F, P) yields the same outcome as
\* _try_unify(P, F); when every variable that P repeats meets equal elements of
\* F, that outcome binds exactly the variables of P, each to the element of F
\* at its position, and otherwise it is the failure value in both directions.
C12_SymmetryDistinct ==
    (/\ UnifyDone
     /\ AllVariable(result.pattern)
     /\ Ground(result.fact)
     /\ Len(result.pattern) = Len(result.fact))
    => /\ _try_unify(result.fact, result.pattern) = result.bindings
       /\ IF RepeatsAgree(result.pattern, result.fact)
          THEN /\ result.bindings # None
               /\ DOMAIN result.bindings
                    = {result.pattern[i].str : i \in 1..Len(result.pattern)}
               /\ \A i \in 1..Len(result.pattern) :
                     result.bindings[result.pattern[i].str] = result.fact[i]
          ELSE result.bindings = None

C12_Witness ==
    /\ UnifyDone
    /\ result.pattern = <<S("_x"), S("_y"), S("_x")>>
    /\ result.fact = <<S("a"), I(1), S("a")>>
    /\ result.bindings = ("_x" :> S("a")) @@ ("_y" :> I(1))

-----------------------------------------------------------------------------
(* The engine on its own: queries on a loaded PrologEngine *)

\* the most queries put to one engine
MaxQueries == 2

\* the facts an engine is loaded with, in the order they are added
EngineFacts ==
    << <<"person", <<S("maria")>> >>,
       <<"person", <<S("maria")>> >>,
       <<"yearly_income", <<S("maria"), I(25000)>> >>,
       <<"yearly_income", <<S("maria"), I(90000)>> >>,
       <<"yearly_income", <<S("maria"), I(25000)>> >>,
       <<"has_child", <<S("maria"), S("sophie")>> >>,
       <<"birthdate", <<S("sophie"), I(2000), I(1), I(1)>> >>,
       <<"tax_residence", <<S("maria"), S("germany")>> >>,
       <<"eligible_for_kindergeld", <<S("maria")>> >> >>

\* add_fact for the facts of EngineFacts at the positions in `chosen`
RECURSIVE AddFacts(_, _, _)
AddFacts(kb, chosen, k) ==
    IF k > Len(EngineFacts) THEN kb
    ELSE AddFacts(IF k \in chosen
                  THEN add_fact(kb, EngineFacts[k][1], EngineFacts[k][2])
                  ELSE kb,
                  chosen, k + 1)

\* the engine after loading the chosen facts and then the chosen rules
LoadedEngine(chosen, kindergeld, tax_relief) ==
    LET WithTax(kb) == IF tax_relief THEN _add_tax_relief_rules(kb) ELSE kb
        WithKindergeld(kb) == IF kindergeld THEN _add_kindergeld_rules(kb) ELSE kb
    IN  WithTax(WithKindergeld(AddFacts(NewEngine, chosen, 1)))

Goals ==
    { <<"eligible_for_kindergeld", <<S("maria")>> >>,
      <<"eligible_for_low_income_tax_relief", <<S("maria")>> >>,
      <<"person", <<S("_x")>> >>,
      <<"yearly_income", <<S("maria"), S("_x")>> >>,
      <<"citizen", <<S("maria")>> >> }

InitEngine ==
    /\ \E chosen \in SUBSET (1..Len(EngineFacts)), kindergeld, tax_relief \in BOOLEAN :
          \E kb \in {LoadedEngine(chosen, kindergeld, tax_relief)} :
              /\ facts = kb.facts
              /\ rules = kb.rules
              /\ execution_trace = kb.execution_trace
    /\ result = [queried |-> 0]
    /\ ace_rules = <<>>
    /\ query_text = <<>>
    /\ custom_facts = <<>>
    /\ today = <<2026, 11, 5>>
    /\ dropped = FALSE

\* results = self.query(predicate, *args)
Query ==
    /\ result.queried < MaxQueries
    /\ \E goal \in Goals :
          \E r \in {query(KB, today, goal[1], goal[2])} :
              /\ facts' = r.kb.facts
              /\ rules' = r.kb.rules
              /\ execution_trace' = r.kb.execution_trace
              /\ result' = [queried |-> result.queried + 1,
                            predicate |-> goal[1], args |-> goal[2],
                            err |-> r.err, results |-> r.results]
    /\ UNCHANGED <<ace_rules, query_text, custom_facts, today, dropped>>

NextEngine == Query

SpecEngine == InitEngine /\ [][NextEngine]_vars

BuiltIns == {"age_less_than", "income_less_than", "has_child_under_18"}

\* the tuples stored under `predicate`
Stored(predicate) == IF predicate \in DOMAIN facts THEN facts[predicate] ELSE <<>>

\* the body call `call` holds of the fact store under `bindings`
CallHolds(call, bindings) ==
    LET a == Substitute(call[2], bindings)
        ys == Stored("yearly_income")
        mine == {i \in 1..Len(ys) : ys[i][1] = a[1]}
        cs == Stored("has_child")
    IN  IF call[1] = "income_less_than"
        THEN mine # {} /\ ys[Min(mine)][2].int < a[2].int
        ELSE IF call[1] = "has_child_under_18"
        THEN \E i \in 1..Len(cs) :
                 /\ Len(cs[i]) = 2
                 /\ cs[i][1] = a[1]
                 /\ _calculate_age(facts, today, cs[i][2]).value < 18
        ELSE IF call[1] = "age_less_than"
        THEN _calculate_age(facts, today, a[1]).value < a[2].int
        ELSE \E i \in 1..Len(Stored(call[1])) :
                 _try_unify(a, Stored(call[1])[i]) # None

\* the positions of `body` whose call does not hold
Failing(body, bindings) ==
    {i \in 1..Len(body) : ~CallHolds(body[i], bindings)}

\* the Query entries of the body calls i..last that are not built-ins
RECURSIVE BodyQueries(_, _, _, _)
BodyQueries(body, bindings, i, last) ==
    IF i > last THEN <<>>
    ELSE (IF body[i][1] \in BuiltIns THEN <<>>
          ELSE <<[kind |-> "Query", predicate |-> body[i][1],
                  args |-> Substitute(body[i][2], bindings)]>>)
         \o BodyQueries(body, bindings, i + 1, last)

IsQueryEntry(e) == e.kind = "Query"

\* the rules whose head the latest goal unifies with
MatchingRules ==
    {k \in 1..Len(rules) :
        /\ rules[k][1][1] = result.predicate
        /\ _try_unify(result.args, rules[k][1][2]) # None}

\* the results the stored facts give the latest goal
FactPart == FactResults(Stored(result.predicate), result.args, 1)

-----------------------------------------------------------------------------
(* C13 *)

\* C13: rule bodies are a short-circuit AND: when the body call at position k
\* fails, the calls before it have been evaluated in order, no later call is
\* evaluated (the trace holds no Query entry for a later body predicate), and
\* the rule contributes no result.
C13_ShortCircuit ==
    (result.queried = 1 /\ MatchingRules # {}) =>
        \A k \in MatchingRules :
            LET body == rules[k][2]
                bindings == _try_unify(result.args, rules[k][1][2])
                failing == Failing(body, bindings)
            IN  failing # {} =>
                  /\ SelectSeq(execution_trace, IsQueryEntry)
                       = <<[kind |-> "Query", predicate |-> result.predicate,
                            args |-> result.args]>>
                         \o BodyQueries(body, bindings, 1, Min(failing))
                  /\ result.results = FactPart
                  /\ result.err = NoError

\* a rule whose call has_child_under_18 fails while the later call
\* tax_residence would have succeeded
C13_Witness ==
    /\ result.queried = 1
    /\ result.predicate = "eligible_for_kindergeld"
    /\ MatchingRules # {}
    /\ \E k \in MatchingRules :
          Failing(rules[k][2], _try_unify(result.args, rules[k][1][2])) = {4}
    /\ result.results = <<>>

-----------------------------------------------------------------------------
(* C14 *)

\* C14: a query leaves the fact store and the rule base unchanged and only
\* appends to the execution trace, so the same goal put twice in a row on the
\* same date returns the same ordered list of results.
C14_RequeryStable ==
    [][result'.queried = result.queried + 1 =>
         /\ facts' = facts
         /\ rules' = rules
         /\ Len(execution_trace') > Len(execution_trace)
         /\ SubSeq(execution_trace', 1, Len(execution_trace)) = execution_trace
         /\ (/\ result.queried >= 1
             /\ result'.predicate = result.predicate
             /\ result'.args = result.args
             /\ today' = today)
            => /\ result'.results = result.results
               /\ result'.err = result.err]_vars

\* the goal eligible_for_kindergeld(maria) put twice, derived by the rule
C14_Witness ==
    /\ result.queried = 2
    /\ result.predicate = "eligible_for_kindergeld"
    /\ result.results = <<[bindings |-> ("_person" :> S("maria"))]>>
    /\ Len(SelectSeq(execution_trace,
                     LAMBDA e : /\ e.kind = "Query"
                                /\ e.predicate = "eligible_for_kindergeld")) = 2

-----------------------------------------------------------------------------
(* Ages: _calculate_age on one stored birthdate and one current date *)

\* the number of days of month m of year y
DaysIn(y, m) ==
    IF m = 2
    THEN IF y % 4 = 0 /\ (y % 100 # 0 \/ y % 400 = 0) THEN 29 ELSE 28
    ELSE IF m \in {4, 6, 9, 11} THEN 30 ELSE 31

AgeMonths == {1, 2, 3, 12}
AgeDays == {1, 2, 15, 27, 28, 29, 30, 31}

\* the calendar dates of the years `years` on the grid of months and days
CalendarDates(years) ==
    {d \in years \X AgeMonths \X AgeDays : d[3] <= DaysIn(d[1], d[2])}

BirthDates == CalendarDates({2008, 2009})
CurrentDates == CalendarDates({2025, 2026, 2027})

\* the birthdate stored for sophie
StoredBirth ==
    <<facts["birthdate"][1][2].int, facts["birthdate"][1][3].int,
      facts["birthdate"][1][4].int>>

\* the date t is the calendar day before the day d of month m of year y
IsDayBefore(t, y, m, d) ==
    \/ t[1] = y /\ t[2] = m /\ t[3] + 1 = d
    \/ /\ d = 1
       /\ t[3] = DaysIn(t[1], t[2])
       /\ \/ t[1] = y /\ t[2] + 1 = m
          \/ t[1] + 1 = y /\ t[2] = 12 /\ m = 1

InitAge ==
    /\ \E b \in BirthDates :
          \E kb \in {add_fact(NewEngine, "birthdate",
                              <<S("sophie"), I(b[1]), I(b[2]), I(b[3])>>)} :
              /\ facts = kb.facts
              /\ rules = kb.rules
              /\ execution_trace = kb.execution_trace
    /\ today \in CurrentDates
    /\ result = [person |-> S("sophie")]
    /\ ace_rules = <<>>
    /\ query_text = <<>>
    /\ custom_facts = <<>>
    /\ dropped = FALSE

\* actual_age = self._calculate_age(person)
CalculateAge ==
    /\ "age" \notin DOMAIN result
    /\ result' = [person |-> result.person,
                  age |-> _calculate_age(facts, today, result.person)]
    /\ UNCHANGED <<facts, rules, execution_trace, ace_rules, query_text,
                   custom_facts, today, dropped>>

NextAge == CalculateAge

SpecAge == InitAge /\ [][NextAge]_vars

-----------------------------------------------------------------------------
(* C15 *)

\* C15: for a stored birthdate (Y, M, D) the age is the current year minus Y,
\* reduced by one exactly when (current month, current day) comes before
\* (M, D) in lexicographic order; on the date (Y + 18, M, D) the age is 18 and
\* on the day before it is 17.
C15_AgeBoundary ==
    "age" \in DOMAIN result =>
        LET Y == StoredBirth[1]
            M == StoredBirth[2]
            D == StoredBirth[3]
            before == today[2] < M \/ (today[2] = M /\ today[3] < D)
        IN  /\ result.age.err = NoError
            /\ result.age.value = (today[1] - Y) - (IF before THEN 1 ELSE 0)
            /\ today = <<Y + 18, M, D>> => result.age.value = 18
            /\ IsDayBefore(today, Y + 18, M, D) => result.age.value = 17

\* the eighteenth birthday itself
C15_Witness ==
    /\ "age" \in DOMAIN result
    /\ StoredBirth = <<2008, 3, 1>>
    /\ today = <<2026, 3, 1>>
    /\ result.age.value = 18

\* the day before the eighteenth birthday, in another month
C15_WitnessDayBefore ==
    /\ "age" \in DOMAIN result
    /\ StoredBirth = <<2008, 3, 1>>
    /\ today = <<2026, 2, 28>>
    /\ result.age.value = 17

-----------------------------------------------------------------------------
(* C16 *)

\* the members of the set of positions `ps`, in increasing order
Ascending(ps) ==
    [k \in 1..Cardinality(ps) |->
        CHOOSE i \in ps : Cardinality({j \in ps : j < i}) = k - 1]

\* the stored facts the latest goal unifies with
UnifyingFacts ==
    {i \in 1..Len(Stored(result.predicate)) :
        _try_unify(result.args, Stored(result.predicate)[i]) # None}

\* the rules whose head the latest goal unifies with and whose body holds
SucceedingRules ==
    {k \in MatchingRules :
        Failing(rules[k][2], _try_unify(result.args, rules[k][1][2])) = {}}

\* C16: query returns one result per stored fact of the predicate that
\* unifies with the arguments, in insertion order and without early exit (a
\* fact stored twice gives two results), followed by one result per rule, in
\* rule insertion order, whose head matches and whose body succeeds; a rule
\* whose body fails contributes nothing, and a predicate with neither facts
\* nor rules gives the empty list.
C16_FactsThenRules ==
    result.queried >= 1 =>
        LET fs == Ascending(UnifyingFacts)
            rs == Ascending(SucceedingRules)
        IN  /\ result.err = NoError
            /\ result.results
                 = [k \in 1..Len(fs) |->
                       [bindings |-> _try_unify(result.args,
                                                Stored(result.predicate)[fs[k]])]]
                   \o [k \in 1..Len(rs) |->
                          [bindings |-> _try_unify(result.args, rules[rs[k]][1][2])]]
            /\ (result.predicate \notin DOMAIN facts /\ MatchingRules = {})
               => result.results = <<>>

\* a stored fact and the rule both answer the goal: the fact's result first
C16_Witness ==
    /\ result.queried >= 1
    /\ result.predicate = "eligible_for_kindergeld"
    /\ result.results = <<[bindings |-> <<>>],
                          [bindings |-> ("_person" :> S("maria"))]>>

\* three stored incomes, one of them twice, give three results in the order
\* they were added
C16_WitnessDuplicate ==
    /\ result.queried >= 1
    /\ result.predicate = "yearly_income"
    /\ result.results = <<[bindings |-> ("_x" :> I(25000))],
                          [bindings |-> ("_x" :> I(90000))],
                          [bindings |-> ("_x" :> I(25000))]>>

\* a goal whose predicate has neither facts nor rules
C16_WitnessUnknown ==
    /\ result.queried >= 1
    /\ result.predicate = "citizen"
    /\ result.results = <<>>

-----------------------------------------------------------------------------
(* C17 *)

\* C17: for two tuples without variables _try_unify succeeds iff they have
\* the same length and are equal element by element, and then it returns the
\* empty bindings map; on a length difference or an unequal position it
\* returns the failure value, which is not the empty map, so that the fact
\* loop of query counts a variable-free match as a result and a failed one
\* not.
C17_GroundUnify ==
    (UnifyDone /\ Ground(result.pattern) /\ Ground(result.fact)) =>
        LET same == /\ Len(result.pattern) = Len(result.fact)
                    /\ \A i \in 1..Len(result.pattern) :
                          result.pattern[i] = result.fact[i]
        IN  /\ same => result.bindings = <<>>
            /\ ~same => result.bindings = None
            /\ None # <<>>
            /\ FactResults(<<result.fact>>, result.pattern, 1)
                 = IF same THEN <<[bindings |-> <<>>]>> ELSE <<>>

\* two equal tuples of ground terms
C17_Witness ==
    /\ UnifyDone
    /\ result.pattern = <<S("a"), I(1)>>
    /\ result.fact = <<S("a"), I(1)>>
    /\ result.bindings = <<>>

\* two ground tuples of one length that differ at the second position
C17_WitnessFail ==
    /\ UnifyDone
    /\ result.pattern = <<S("a"), I(1)>>
    /\ result.fact = <<S("a"), S("a")>>
    /\ result.bindings = None

-----------------------------------------------------------------------------
(* C19 *)

\* the side `side` repeats a variable and unifies with the side `other`:
\* success needs equal terms of `other` at all positions of the variable, and
\* binds the variable to the term at its first position
RepeatedChecked(side, other) ==
    \A v \in UnderscoreNames :
        LET ps == PositionsOf(side, v)
        IN  (Cardinality(ps) >= 2 /\ result.bindings # None)
            => /\ \A i, j \in ps : other[i] = other[j]
               /\ v \in DOMAIN result.bindings
               /\ result.bindings[v] = other[Min(ps)]

\* C19 as stated: when the same variable occurs at two or more positions of
\* one side, _try_unify succeeds only if the terms of the other side at those
\* positions are all equal, the variable is bound to the term at its first
\* position, and a later different term makes the unification fail.
C19_RepeatedVariable ==
    (UnifyDone /\ Len(result.pattern) = Len(result.fact)) =>
        /\ RepeatedChecked(result.pattern, result.fact)
        /\ RepeatedChecked(result.fact, result.pattern)

\* C19 amended: the same holds whenever the terms of the other side at the
\* positions of the repeated variable are not themselves variables, and for a
\* variable repeated on the fact side it holds whatever the pattern's terms
\* are.
C19_RepeatedVariableGround ==
    (UnifyDone /\ Len(result.pattern) = Len(result.fact)) =>
        /\ \A v \in UnderscoreNames :
              LET ps == PositionsOf(result.pattern, v)
              IN  (/\ Cardinality(ps) >= 2
                   /\ \A i \in ps : ~IsVar(result.fact[i])
                   /\ result.bindings # None)
                  => /\ \A i, j \in ps : result.fact[i] = result.fact[j]
                     /\ v \in DOMAIN result.bindings
                     /\ result.bindings[v] = result.fact[Min(ps)]
        /\ RepeatedChecked(result.fact, result.pattern)

\* a repeated pattern variable that meets two different ground terms
C19_Witness ==
    /\ UnifyDone
    /\ result.pattern = <<S("_x"), S("_y"), S("_x")>>
    /\ result.fact = <<S("a"), S("a"), I(1)>>
    /\ result.bindings = None

\* a repeated fact variable bound to the pattern's term at its first position
C19_WitnessBound ==
    /\ UnifyDone
    /\ result.pattern = <<I(1), S("_y"), I(1)>>
    /\ result.fact = <<S("_x"), S("a"), S("_x")>>
    /\ result.bindings = ("_x" :> I(1)) @@ ("_y" :> S("a"))

-----------------------------------------------------------------------------
(* C18 *)

\* the members of a sequence
Range(seq) == {seq[k] : k \in 1..Len(seq)}

\* the five conditions of the kindergeld rule for the person p, read off the
\* fact store
KindergeldConditions(p) ==
    LET ys == Stored("yearly_income")
        mine == {i \in 1..Len(ys) : ys[i][1] = S(p)}
        children == {t[2] : t \in {u \in Range(Stored("has_child")) :
                                      Len(u) = 2 /\ u[1] = S(p)}}
    IN  /\ <<S(p)>> \in Range(Stored("person"))
        /\ children # {}
        /\ mine # {}
        /\ Len(ys[Min(mine)]) >= 2
        /\ ys[Min(mine)][2].int < 68000
        /\ \E c \in children : _calculate_age(facts, today, c).value < 18
        /\ <<S(p), S("germany")>> \in Range(Stored("tax_residence"))

\* the latest call answered that its person is eligible for Kindergeld, which
\* it does when query(eligible_for_kindergeld, p) returned a non-empty list
AnsweredEligible ==
    /\ result.success
    /\ result.answer = <<"Yes, ", QueryLower[2], " is eligible for Kindergeld.">>

-----------------------------------------------------------------------------
(* C20 *)

\* the first yearly_income tuple of `person`, in insertion order, exists and
\* its income is below `limit`
FirstIncomeBelow(person, limit) ==
    LET ys == Stored("yearly_income")
    IN  \E i \in 1..Len(ys) :
            /\ ys[i][1] = person
            /\ \A j \in 1..(i - 1) : ys[j][1] # person
            /\ ys[i][2].int < limit.int

\* the positions of `body` that call income_less_than
IncomeCalls(body) == {i \in 1..Len(body) : body[i][1] = "income_less_than"}

\* C20: income_less_than(person, limit) is decided by the first yearly_income
\* tuple, in insertion order, whose first element is the person: it holds iff
\* that tuple exists and its income is strictly below the limit; later tuples
\* of the person are never consulted, and a person without such a tuple makes
\* the body fail as an ordinary negative result, not an error. Read off a rule
\* all of whose other body calls hold: the rule answers the goal iff the first
\* income is below the rule's limit.
C20_FirstIncomeDecides ==
    result.queried >= 1 =>
        \A k \in MatchingRules :
            LET body == rules[k][2]
                bindings == _try_unify(result.args, rules[k][1][2])
                others == Failing(body, bindings) \ IncomeCalls(body)
            IN  (IncomeCalls(body) # {} /\ others = {}) =>
                    /\ result.err = NoError
                    /\ \A i \in IncomeCalls(body) :
                          LET a == Substitute(body[i][2], bindings)
                          IN  result.results # FactPart
                              <=> FirstIncomeBelow(a[1], a[2])

\* the first income of the person is too high and a later one is not: the
\* rule does not answer
C20_Witness ==
    /\ result.queried >= 1
    /\ result.predicate = "eligible_for_low_income_tax_relief"
    /\ MatchingRules # {}
    /\ <<S("maria")>> \in Range(Stored("person"))
    /\ <<S("maria"), S("germany")>> \in Range(Stored("tax_residence"))
    /\ Stored("yearly_income") = << <<S("maria"), I(90000)>>, <<S("maria"), I(25000)>> >>
    /\ result.results = <<>>

\* no income is stored for the person: an empty list and no error
C20_WitnessNoIncome ==
    /\ result.queried >= 1
    /\ result.predicate = "eligible_for_low_income_tax_relief"
    /\ MatchingRules # {}
    /\ <<S("maria")>> \in Range(Stored("person"))
    /\ <<S("maria"), S("germany")>> \in Range(Stored("tax_residence"))
    /\ Stored("yearly_income") = <<>>
    /\ result.results = <<>>
    /\ result.err = NoError

-----------------------------------------------------------------------------
(* Rule bodies on their own: _evaluate_body_with_bindings on a fact store *)

\* the facts a store is filled with, in the order they are added
BodyFacts ==
    << <<"has_child", <<S("maria"), S("sophie")>> >>,
       <<"has_child", <<S("maria"), S("tim")>> >>,
       <<"has_child", <<S("bob"), S("tim")>> >>,
       <<"birthdate", <<S("sophie"), I(2000), I(1), I(1)>> >>,
       <<"birthdate", <<S("sophie"), I(2015), I(1), I(1)>> >>,
       <<"birthdate", <<S("tim"), I(2008), I(11), I(5)>> >>,
       <<"birthdate", <<S("maria"), I(2010), I(1), I(1)>> >>,
       <<"student", <<S("maria")>> >> >>

\* add_fact for the facts of BodyFacts at the positions in `chosen`
RECURSIVE AddBodyFacts(_, _, _)
AddBodyFacts(kb, chosen, k) ==
    IF k > Len(BodyFacts) THEN kb
    ELSE AddBodyFacts(IF k \in chosen
                      THEN add_fact(kb, BodyFacts[k][1], BodyFacts[k][2])
                      ELSE kb,
                      chosen, k + 1)

\* the bodies evaluated: single built-in calls, the body of the student
\* support rule, and a body whose second call uses a variable that only its
\* first call's sub-query meets
Bodies ==
    { << <<"has_child_under_18", <<S("_person")>> >> >>,
      << <<"age_less_than", <<S("_person"), I(1)>> >> >>,
      << <<"student", <<S("_person")>> >>,
         <<"age_less_than", <<S("_person"), I(25)>> >> >>,
      << <<"has_child", <<S("_person"), S("_child")>> >>,
         <<"has_child", <<S("_child"), S("_x")>> >> >> }

InitBody ==
    /\ \E chosen \in SUBSET (1..Len(BodyFacts)) :
          \E kb \in {AddBodyFacts(NewEngine, chosen, 1)} :
              /\ facts = kb.facts
              /\ rules = kb.rules
              /\ execution_trace = kb.execution_trace
    /\ \E body \in Bodies, person \in {"maria", "bob", "sophie"} :
          result = [body |-> body, bindings |-> ("_person" :> S(person))]
    /\ today \in {<<2026, 11, 4>>, <<2026, 11, 5>>}
    /\ ace_rules = <<>>
    /\ query_text = <<>>
    /\ custom_facts = <<>>
    /\ dropped = FALSE

\* self._evaluate_body_with_bindings(body, bindings)
EvaluateBody ==
    /\ "value" \notin DOMAIN result
    /\ \E r \in {_evaluate_body_with_bindings(KB, today, result.body,
                                              result.bindings, 1)} :
          /\ facts' = r.kb.facts
          /\ rules' = r.kb.rules
          /\ execution_trace' = r.kb.execution_trace
          /\ result' = [body |-> result.body, bindings |-> result.bindings,
                        err |-> r.err, value |-> r.value, after |-> r.bindings]
    /\ UNCHANGED <<ace_rules, query_text, custom_facts, today, dropped>>

NextBody == EvaluateBody

SpecBody == InitBody /\ [][NextBody]_vars

\* the body of the latest evaluation is the single call of `predicate`
Evaluated(predicate) ==
    /\ "value" \in DOMAIN result
    /\ Len(result.body) = 1
    /\ result.body[1][1] = predicate

\* the person the latest evaluation is about
BodyPerson == result.bindings["_person"]

\* the children of `person` in the fact store, in insertion order
ChildrenOf(person) ==
    LET cs == Stored("has_child")
    IN  {cs[i][2] : i \in {j \in 1..Len(cs) : cs[j][1] = person}}

-----------------------------------------------------------------------------
(* C21 *)

\* C21: has_child_under_18(person) holds iff some has_child tuple has the
\* person as its first element and a child whose computed age is strictly
\* below 18; it fails when the person has no has_child tuple, when every child
\* of the person is 18 or older, and when has_child has no facts at all.
C21_ChildUnder18 ==
    Evaluated("has_child_under_18") =>
        LET ages == {_calculate_age(facts, today, c).value :
                        c \in ChildrenOf(BodyPerson)}
        IN  /\ result.err = NoError
            /\ result.value <=> (\E a \in ages : a < 18)
            /\ ChildrenOf(BodyPerson) = {} => ~result.value
            /\ (\A a \in ages : a >= 18) => ~result.value
            /\ "has_child" \notin DOMAIN facts => ~result.value

\* the first child of the person is 26 and the second is 17: the call holds
C21_Witness ==
    /\ Evaluated("has_child_under_18")
    /\ BodyPerson = S("maria")
    /\ today = <<2026, 11, 4>>
    /\ Stored("has_child") = << <<S("maria"), S("sophie")>>, <<S("maria"), S("tim")>> >>
    /\ _calculate_age(facts, today, S("sophie")).value = 26
    /\ _calculate_age(facts, today, S("tim")).value = 17
    /\ result.value

\* every child of the person is 18 or older: the call fails
C21_WitnessAdult ==
    /\ Evaluated("has_child_under_18")
    /\ BodyPerson = S("bob")
    /\ today = <<2026, 11, 5>>
    /\ ChildrenOf(BodyPerson) = {S("tim")}
    /\ _calculate_age(facts, today, S("tim")).value = 18
    /\ ~result.value

-----------------------------------------------------------------------------
(* C22 *)

\* C22: evaluating a rule body never changes the bindings map it was given: a
\* body call that is not a built-in succeeds iff its sub-query returns at
\* least one result, and the sub-query's bindings are discarded, so that a
\* variable the map leaves unbound (such as _child) is still unbound in the
\* later body calls; the map a rule's result carries is therefore the one the
\* head unification produced.
C22_BindingsKept ==
    "value" \in DOMAIN result =>
        LET failing == Failing(result.body, result.bindings)
            last == IF failing = {} THEN Len(result.body) ELSE Min(failing)
        IN  /\ result.err = NoError
            /\ result.after = result.bindings
            /\ result.value <=> failing = {}
            /\ SelectSeq(execution_trace, IsQueryEntry)
                 = BodyQueries(result.body, result.bindings, 1, last)

\* the first call's sub-query bound _child to tim, who has no child; the second
\* call still asks has_child(_child, _x) and holds of bob's own tuple
C22_Witness ==
    /\ "value" \in DOMAIN result
    /\ BodyPerson = S("bob")
    /\ Stored("has_child") = << <<S("bob"), S("tim")>> >>
    /\ result.value
    /\ result.after = ("_person" :> S("bob"))
    /\ SelectSeq(execution_trace, IsQueryEntry)
         = << [kind |-> "Query", predicate |-> "has_child",
               args |-> <<S("bob"), S("_child")>>],
              [kind |-> "Query", predicate |-> "has_child",
               args |-> <<S("_child"), S("_x")>>] >>

-----------------------------------------------------------------------------
(* The engine's operations in any order: add_fact, add_rule, query, clear *)

\* the most operations applied to one engine
MaxOps == 4

StoreFacts ==
    { <<"person", <<S("maria")>> >>,
      <<"has_child", <<S("maria"), S("sophie")>> >>,
      <<"yearly_income", <<S("maria"), I(25000)>> >>,
      <<"tax_residence", <<S("maria"), S("germany")>> >> }

StoreGoals ==
    { <<"eligible_for_kindergeld", <<S("maria")>> >>,
      <<"person", <<S("_x")>> >> }

InitStore ==
    /\ facts = NewEngine.facts
    /\ rules = NewEngine.rules
    /\ execution_trace = NewEngine.execution_trace
    /\ result = [ops |-> 0, op |-> "__init__"]
    /\ ace_rules = <<>>
    /\ query_text = <<>>
    /\ custom_facts = <<>>
    /\ today = <<2026, 11, 5>>
    /\ dropped = FALSE

\* the engine becomes kb by the operation op
StoreStep(kb, op) ==
    /\ facts' = kb.facts
    /\ rules' = kb.rules
    /\ execution_trace' = kb.execution_trace
    /\ result' = op @@ [ops |-> result.ops + 1]
    /\ UNCHANGED <<ace_rules, query_text, custom_facts, today, dropped>>

\* self.prolog.add_fact(predicate, *args)
StoreAddFact ==
    /\ result.ops < MaxOps
    /\ \E f \in StoreFacts :
          StoreStep(add_fact(KB, f[1], f[2]),
                    [op |-> "add_fact", predicate |-> f[1], args |-> f[2]])

\* self.prolog.add_rule(head, body), for the rules the program adds
StoreAddRule ==
    /\ result.ops < MaxOps
    /\ \E kb \in {_add_kindergeld_rules(KB), _add_tax_relief_rules(KB)} :
          StoreStep(kb, [op |-> "add_rule"])

\* self.prolog.query(predicate, *args)
StoreQuery ==
    /\ result.ops < MaxOps
    /\ \E goal \in StoreGoals :
          \E r \in {query(KB, today, goal[1], goal[2])} :
              StoreStep(r.kb, [op |-> "query", predicate |-> goal[1],
                               args |-> goal[2], err |-> r.err,
                               results |-> r.results])

\* self.prolog.clear()
StoreClear ==
    /\ result.ops < MaxOps
    /\ StoreStep(clear(KB), [op |-> "clear"])

NextStore == StoreAddFact \/ StoreAddRule \/ StoreQuery \/ StoreClear

SpecStore == InitStore /\ [][NextStore]_vars

-----------------------------------------------------------------------------
(* C23 *)

\* C23: the fact store is append-only between resets: add_fact always
\* succeeds and puts its tuple at the end of its predicate's list, creating
\* the list if absent and without de-duplication; add_fact, add_rule and query
\* never remove, reorder or alter a stored tuple; only clear() removes facts.
C23_AppendOnly ==
    [][/\ result'.op = "add_fact" =>
            /\ DOMAIN facts' = DOMAIN facts \cup {result'.predicate}
            /\ facts'[result'.predicate]
                 = Stored(result'.predicate) \o <<result'.args>>
            /\ \A q \in DOMAIN facts \ {result'.predicate} : facts'[q] = facts[q]
       /\ result'.op \in {"add_rule", "query"} => facts' = facts
       /\ result'.op # "clear" =>
            \A q \in DOMAIN facts :
                /\ q \in DOMAIN facts'
                /\ Len(facts'[q]) >= Len(facts[q])
                /\ SubSeq(facts'[q], 1, Len(facts[q])) = facts[q]
       /\ result'.op = "clear" => DOMAIN facts' = {}]_vars

\* the same tuple added twice is stored twice
C23_Witness ==
    /\ result.op = "add_fact"
    /\ Stored("person") = << <<S("maria")>>, <<S("maria")>> >>

-----------------------------------------------------------------------------
(* C24 *)

\* the Query entries of the body calls that the rules k.. make when the goal
\* predicate(args) is put to the engine of the current state
RECURSIVE RuleQueries(_, _, _)
RuleQueries(predicate, args, k) ==
    IF k > Len(rules) THEN <<>>
    ELSE LET body == rules[k][2]
             bindings == _try_unify(args, rules[k][1][2])
             failing == Failing(body, bindings)
         IN  (IF rules[k][1][1] = predicate /\ bindings # None
              THEN BodyQueries(body, bindings, 1,
                               IF failing = {} THEN Len(body) ELSE Min(failing))
              ELSE <<>>)
             \o RuleQueries(predicate, args, k + 1)

\* C24: between two resets the execution trace only grows: every add_fact,
\* every add_rule and every query call, each sub-query made from a rule body
\* included, appends exactly one entry at the end, and no operation but
\* clear() removes or changes an entry; hence the length of the trace is the
\* number of stored facts plus the number of rules plus the number of query
\* calls made.
C24_TraceGrows ==
    /\ [](Len(execution_trace)
            = SumLen(facts, DOMAIN facts) + Len(rules)
              + Len(SelectSeq(execution_trace, IsQueryEntry)))
    /\ [][/\ result'.op = "add_fact" =>
               execution_trace'
                 = Append(execution_trace,
                          [kind |-> "Added fact", predicate |-> result'.predicate,
                           args |-> result'.args])
          /\ result'.op = "add_rule" =>
               /\ Len(execution_trace') = Len(execution_trace) + 1
               /\ SubSeq(execution_trace', 1, Len(execution_trace)) = execution_trace
               /\ execution_trace'[Len(execution_trace')].kind = "Added rule"
          /\ result'.op = "query" =>
               execution_trace'
                 = execution_trace
                   \o <<[kind |-> "Query", predicate |-> result'.predicate,
                         args |-> result'.args]>>
                   \o RuleQueries(result'.predicate, result'.args, 1)
          /\ result'.op = "clear" => execution_trace' = <<>>]_vars

\* a query that made three sub-queries, on an engine with facts and a rule
C24_Witness ==
    /\ result.op = "query"
    /\ result.predicate = "eligible_for_kindergeld"
    /\ Len(SelectSeq(execution_trace, IsQueryEntry)) = 3
    /\ Len(rules) = 1
    /\ SumLen(facts, DOMAIN facts) = 2
    /\ Len(execution_trace) = 6

-----------------------------------------------------------------------------
(* C25 *)

\* the three rules the program can add, in the order it adds them
HardcodedRules ==
    _add_student_support_rules(
        _add_tax_relief_rules(_add_kindergeld_rules(NewEngine))).rules

\* the head predicates of the rule base
Heads == {rules[k][1][1] : k \in 1..Len(rules)}

\* C25: every execute_query call terminates: the rule base holds only the
\* three hardcoded rules, no body predicate of a rule is the head of a rule,
\* and so a query goes at most one level into rule bodies: each query call
\* recorded in the trace is followed by exactly the sub-queries of the bodies
\* of its own rules, and those sub-queries make none of their own. Every call
\* has returned its record.
C25_QueriesReturn ==
    result # NoResult =>
        /\ result.success \in BOOLEAN
        /\ \A k \in 1..Len(rules) :
              /\ rules[k] \in Range(HardcodedRules)
              /\ \A i \in 1..Len(rules[k][2]) : rules[k][2][i][1] \notin Heads
        /\ result.success =>
              \A k \in 1..Len(execution_trace) :
                  LET e == execution_trace[k]
                      sub == IF e.kind = "Query"
                             THEN RuleQueries(e.predicate, e.args, 1)
                             ELSE <<>>
                  IN  /\ k + Len(sub) <= Len(execution_trace)
                      /\ SubSeq(execution_trace, k + 1, k + Len(sub)) = sub
                      /\ \A j \in 1..Len(sub) : sub[j].predicate \notin Heads

\* a call that put the kindergeld goal for several persons, each with its
\* sub-queries, to a rule base of three rules
C25_Witness ==
    /\ result # NoResult
    /\ result.success
    /\ Len(rules) = 3
    /\ Cardinality({k \in 1..Len(execution_trace) :
                       /\ execution_trace[k].kind = "Query"
                       /\ execution_trace[k].predicate = "eligible_for_kindergeld"
                       /\ Len(RuleQueries(execution_trace[k].predicate,
                                          execution_trace[k].args, 1)) >= 2}) >= 2

-----------------------------------------------------------------------------
(* The IDE: execute_current_query starts one thread per Execute, and the
   threads share the SemanticBrowser and its PrologEngine *)

Threads == {1, 2}

ThreadQueries ==
    { <<"Who", "has", "children", "?">>,
      <<"Is", "Maria", "eligible", "for", "Kindergeld", "?">> }

\* the steps of one thread, in order
InProgress == {"clear", "facts", "query"}

\* the workspace's rule text and fact text, and no Execute yet
InitThreads ==
    /\ facts = NewEngine.facts
    /\ rules = NewEngine.rules
    /\ execution_trace = NewEngine.execution_trace
    /\ result = [t \in Threads |-> [pc |-> "idle"]]
    /\ ace_rules = KindergeldRules
    /\ query_text = <<>>
    /\ custom_facts = << <<"maria", "is", "a", "person", ".">>,
                         <<"maria", "has", "child", "c1", ".">> >>
    /\ today = <<2026, 11, 5>>
    /\ dropped = FALSE

\* thread t moves to the record `next` and the shared engine becomes kb
ThreadStep(t, next, kb) ==
    /\ result' = [result EXCEPT ![t] = next]
    /\ facts' = kb.facts
    /\ rules' = kb.rules
    /\ execution_trace' = kb.execution_trace
    /\ UNCHANGED <<ace_rules, custom_facts, today, dropped>>

\* execute_current_query: the editor's query is read and a thread is started,
\* whatever the threads started before are doing
Execute ==
    \E t \in Threads, q \in ThreadQueries :
        /\ result[t].pc = "idle"
        /\ \A u \in Threads : u < t => result[u].pc # "idle"
        /\ query_text' = q
        /\ ThreadStep(t, [pc |-> "clear", query |-> q], KB)

\* self.prolog.clear() at the head of parse_ace_rules_with_custom_facts
ThreadClear ==
    \E t \in Threads :
        /\ result[t].pc = "clear"
        /\ ThreadStep(t, [result[t] EXCEPT !.pc = "facts"] @@
                         [lines |-> SelectSeq(custom_facts, LAMBDA line : line # <<>>)],
                      clear(KB))
        /\ UNCHANGED query_text

\* one turn of the loop `for fact in fact_lines: self._parse_ace_fact(fact)`
ThreadLoadFact ==
    \E t \in Threads :
        /\ result[t].pc = "facts"
        /\ result[t].lines # <<>>
        /\ ThreadStep(t, [result[t] EXCEPT !.lines = Tail(@)],
                      LoadFacts(KB, <<Head(result[t].lines)>>, 1))
        /\ UNCHANGED query_text

\* the three "Parse and add rules" conditionals, after the loop
ThreadAddRules ==
    \E t \in Threads :
        /\ result[t].pc = "facts"
        /\ result[t].lines = <<>>
        /\ ThreadStep(t, [result[t] EXCEPT !.pc = "query"],
                      StudentSupportTrigger(
                          TaxReliefTrigger(KindergeldTrigger(KB, ace_rules), ace_rules),
                          ace_rules))
        /\ UNCHANGED query_text

\* the rest of execute_query: the query is answered from the engine as it is
\* now, and the record is handed to display_results
ThreadAnswer ==
    \E t \in Threads :
        /\ result[t].pc = "query"
        /\ \E r \in Dispatch(KB, today, Strip(LowerText(result[t].query), "?")) :
              \E out \in {Return(r)} :
                  ThreadStep(t, [result[t] EXCEPT !.pc = "done"] @@
                                [shown |-> out.result],
                             out.kb)
        /\ UNCHANGED query_text

NextThreads ==
    Execute \/ ThreadClear \/ ThreadLoadFact \/ ThreadAddRules \/ ThreadAnswer

SpecThreads == InitThreads /\ [][NextThreads]_vars

-----------------------------------------------------------------------------
(* C26 *)

\* C26: the IDE provides the mutual exclusion the engine requires: at most
\* one execute_query call is in progress on the shared engine at any time, so
\* that no call's clear() or loading runs while another call loads or
\* evaluates, and each displayed result is the one its own call gives on its
\* own knowledge base.
C26_MutualExclusion ==
    /\ Cardinality({t \in Threads : result[t].pc \in InProgress}) <= 1
    /\ \A t \in Threads :
          result[t].pc = "done" =>
              result[t].shown
                \in {out.result :
                        out \in execute_query(NewEngine, today, ace_rules,
                                              result[t].query, custom_facts)}

\* a displayed result that no call on its own gives
C26_Interleaved ==
    \A t \in Threads :
        result[t].pc = "done" =>
            result[t].shown
              \in {out.result :
                      out \in execute_query(NewEngine, today, ace_rules,
                                            result[t].query, custom_facts)}

-----------------------------------------------------------------------------
(* C27 *)

\* the place of a hardcoded rule in the order kindergeld, tax relief, student
\* support; 0 for any other rule
RulePlace(rule) ==
    IF rule[1][1] = "eligible_for_kindergeld" /\ rule = HardcodedRules[1] THEN 1
    ELSE IF rule[1][1] = "eligible_for_low_income_tax_relief"
            /\ rule = HardcodedRules[2] THEN 2
    ELSE IF rule[1][1] = "eligible_for_student_support"
            /\ rule = HardcodedRules[3] THEN 3
    ELSE 0

\* C27: after any execute_query call the rule base has at most three rules,
\* each a hardcoded rule present at most once, in the order kindergeld, tax
\* relief, student support, however many trigger words the rule text has and
\* whatever the earlier calls loaded.
C27_RuleBase ==
    result # NoResult =>
        /\ Len(rules) <= 3
        /\ \A k \in 1..Len(rules) : RulePlace(rules[k]) # 0
        /\ \A i, k \in 1..Len(rules) :
              i < k => RulePlace(rules[i]) < RulePlace(rules[k])

\* a call whose rule text has both kindergeld trigger words and both tax
\* relief trigger words, and which left the three rules
C27_Witness ==
    /\ result # NoResult
    /\ Contains(LowerText(ace_rules), "kindergeld")
    /\ PhraseAt(ace_rules, <<"If", "a", "person", "has", "children">>) # {}
    /\ Contains(LowerText(ace_rules), "tax_relief")
    /\ Contains(LowerText(ace_rules), "low_income_tax_relief")
    /\ Len(rules) = 3

\* a call whose rule text has both kindergeld trigger words and which left
\* the kindergeld rule alone
C27_WitnessOne ==
    /\ result # NoResult
    /\ Contains(LowerText(ace_rules), "kindergeld")
    /\ PhraseAt(ace_rules, <<"If", "a", "person", "has", "children">>) # {}
    /\ Len(rules) = 1

-----------------------------------------------------------------------------
(* One call whose fact text is blank, or has blank lines about its lines *)

\* the fact texts: the empty text, texts of blank lines only, and a caller's
\* line alone, after a blank line and before one
BlankTexts ==
    { <<>>, << <<>> >>, << <<>>, <<>> >> }
    \cup UNION { { <<FactLines[k]>>, << <<>>, FactLines[k] >>, << FactLines[k], <<>> >> } :
                    k \in {1, 2, 5} }

InitBlank ==
    /\ facts = NewEngine.facts
    /\ rules = NewEngine.rules
    /\ execution_trace = NewEngine.execution_trace
    /\ result = NoResult
    /\ ace_rules \in RuleTexts
    /\ query_text \in QueryTexts
    /\ custom_facts \in BlankTexts
    /\ today \in Dates
    /\ dropped = FALSE

\* execute_query(ace_rules, query_text, custom_facts)
BlankCall ==
    /\ result = NoResult
    /\ custom_facts \in BlankTexts
    /\ Call(ace_rules, query_text, custom_facts, today)

NextBlank == BlankCall

SpecBlank == InitBlank /\ [][NextBlank]_vars

-----------------------------------------------------------------------------
(* C28 *)

\* the names the sample database gives its persons and its children
SampleNames ==
    {AceName(test_persons[k][2]) : k \in 1..Len(test_persons)}
    \cup {ChildAce(test_children[k][1]) : k \in 1..Len(test_children)}

\* the persons of the sample database who have a row in children
SampleParents ==
    {AceName(test_persons[k][2]) :
        k \in {j \in 1..Len(test_persons) :
                  \E c \in 1..Len(test_children) :
                      test_children[c][2] = test_persons[j][1]}}

\* C28: a call whose fact text is empty or blank loads the statements of the
\* sample database: its persons are stored, facts_count is positive, and
\* "who has children" is answered with the sample parents. The caller's facts
\* alone are stored when the text is not blank.
C28_SampleFacts ==
    result # NoResult =>
        IF NotBlank(custom_facts)
        THEN \A predicate \in DOMAIN facts :
                \A k \in 1..Len(facts[predicate]) :
                    \A i \in 1..Len(facts[predicate][k]) :
                        \A name \in SampleNames : facts[predicate][k][i] # S(name)
        ELSE /\ "person" \in DOMAIN facts
             /\ facts["person"]
                  = [k \in 1..Len(test_persons) |-> <<S(AceName(test_persons[k][2]))>>]
             /\ result.success => result.facts_count >= Len(test_persons)
             /\ (result.success /\ query_text = <<"Who", "has", "children", "?">>) =>
                   /\ {result.results[k].person : k \in 1..Len(result.results)}
                         = SampleParents
                   /\ SampleParents # {}

\* a call with a text of blank lines only that answered "who has children"
C28_Witness ==
    /\ result # NoResult
    /\ custom_facts = << <<>>, <<>> >>
    /\ query_text = <<"Who", "has", "children", "?">>
    /\ result.success
    /\ result.facts_count > 0

\* a call with a caller's line after a blank line
C28_WitnessCustom ==
    /\ result # NoResult
    /\ custom_facts = << <<>>, FactLines[1] >>
    /\ result.success
    /\ result.facts_count = 1

-----------------------------------------------------------------------------
(* The list objects behind execution_trace: a result record holds a reference
   to the engine's list, not a copy of it *)

\* the most calls made on one SemanticBrowser
MaxCalls == 2

\* the engine's list emptied where it is, so that every holder of it sees it
\* empty
clear_trace_inplace(heap, ref) ==
    [heap |-> [heap EXCEPT ![ref] = <<>>], ref |-> ref]

\* `self.execution_trace = []` of clear: a new empty list object, to which the
\* engine now refers; the old one is left as it is
clear_trace(heap, ref) ==
    [heap |-> Append(heap, <<>>), ref |-> Len(heap) + 1]

\* the appends of add_fact, add_rule and query, made in place to the list the
\* engine refers to
append_trace(heap, ref, entries) ==
    [heap EXCEPT ![ref] = @ \o entries]

AliasRules == {<<>>, KindergeldRules}

AliasQueries ==
    { <<"Is", "Maria", "eligible", "for", "Kindergeld", "?">>,
      <<"Who", "has", "children", "?">> }

AliasFacts == FactTextsUpTo(SeqFactLines, 1)

\* PrologEngine.__init__: the first list object; no record returned yet
InitAlias ==
    /\ facts = NewEngine.facts
    /\ rules = NewEngine.rules
    /\ execution_trace = NewEngine.execution_trace
    /\ result = [heap |-> <<NewEngine.execution_trace>>, ref |-> 1, returned |-> <<>>]
    /\ ace_rules = <<>>
    /\ query_text = <<>>
    /\ custom_facts = <<>>
    /\ today = <<2026, 11, 5>>
    /\ dropped = FALSE

\* execute_query: clear() takes the engine to an empty list, the call appends
\* its entries to it, and the record returned refers to that list; the caller
\* keeps the record, with the trace it read from it on return
AliasCall ==
    /\ Len(result.returned) < MaxCalls
    /\ \E r \in AliasRules, q \in AliasQueries, f \in AliasFacts :
          \E out \in execute_query(KB, today, r, q, f) :
              LET cleared == clear_trace(result.heap, result.ref)
                  heap == append_trace(cleared.heap, cleared.ref,
                                       out.kb.execution_trace)
              IN  /\ facts' = out.kb.facts
                  /\ rules' = out.kb.rules
                  /\ execution_trace' = heap[cleared.ref]
                  /\ result' = [heap |-> heap,
                                ref |-> cleared.ref,
                                returned |->
                                  Append(result.returned,
                                         [execution_trace |-> cleared.ref,
                                          read |-> heap[cleared.ref],
                                          success |-> out.result.success])]
                  /\ ace_rules' = r
                  /\ query_text' = q
                  /\ custom_facts' = f
                  /\ UNCHANGED <<today, dropped>>

NextAlias == AliasCall

SpecAlias == InitAlias /\ [][NextAlias]_vars

-----------------------------------------------------------------------------
(* C29 *)

\* C29: the trace in the record one call returned is not altered by any later
\* call: the list it refers to still holds what the caller read from it when
\* the call returned, because the reset makes a new list and leaves that one
\* alone.
C29_TraceKept ==
    \A k \in 1..Len(result.returned) :
        result.heap[result.returned[k].execution_trace] = result.returned[k].read

\* an earlier record with entries in its trace, after a later call whose trace
\* is another
C29_Witness ==
    /\ Len(result.returned) = 2
    /\ result.returned[1].read # <<>>
    /\ result.returned[2].read # result.returned[1].read
    /\ execution_trace = result.returned[2].read

-----------------------------------------------------------------------------
(* C30 *)

\* the birthdate tuples stored for `person`, in insertion order
BirthdatesOf(person) ==
    SelectSeq(Stored("birthdate"), LAMBDA fact_args : fact_args[1] = person)

\* C30: a person or child with no birthdate fact has age 0, and the first
\* birthdate tuple of a person alone gives the age; so has_child_under_18
\* holds for a person with a child that has no birthdate fact, and
\* age_less_than holds for a person with no birthdate fact and a positive
\* limit.
C30_NoBirthdate ==
    "value" \in DOMAIN result =>
        /\ \A person \in {S("maria"), S("bob"), S("sophie"), S("tim")} :
              LET born == BirthdatesOf(person)
                  age == _calculate_age(facts, today, person)
              IN  /\ age.err = NoError
                  /\ born = <<>> => age.value = 0
                  \* every birthday of BodyFacts but tim's is the first of
                  \* January
                  /\ (born # <<>> /\ person # S("tim")) =>
                        age.value = today[1] - born[1][2].int
        /\ (/\ Evaluated("has_child_under_18")
            /\ \E child \in ChildrenOf(BodyPerson) : BirthdatesOf(child) = <<>>) =>
              result.value
        /\ (Evaluated("age_less_than") /\ BirthdatesOf(BodyPerson) = <<>>) =>
              result.value
        /\ (/\ Len(result.body) = 2
            /\ result.body[2][1] = "age_less_than"
            /\ \E i \in 1..Len(Stored("student")) : Stored("student")[i] = <<BodyPerson>>
            /\ BirthdatesOf(BodyPerson) = <<>>) =>
              result.value

\* maria's first child is 26 by the first of its two birthdate tuples and her
\* second child has no birthdate fact: has_child_under_18(maria) holds
C30_Witness ==
    /\ Evaluated("has_child_under_18")
    /\ BodyPerson = S("maria")
    /\ Len(BirthdatesOf(S("sophie"))) = 2
    /\ BirthdatesOf(S("tim")) = <<>>
    /\ ChildrenOf(BodyPerson) = {S("sophie"), S("tim")}
    /\ result.value

\* age_less_than(bob, 1) holds for bob, who has no birthdate fact
C30_WitnessLimit ==
    /\ Evaluated("age_less_than")
    /\ BodyPerson = S("bob")
    /\ Stored("birthdate") # <<>>
    /\ result.value

\* by the first tuple alone sophie is 26, and maria has no child under 18
C30_WitnessFirst ==
    /\ Evaluated("has_child_under_18")
    /\ BodyPerson = S("maria")
    /\ Len(BirthdatesOf(S("sophie"))) = 2
    /\ ChildrenOf(BodyPerson) = {S("sophie")}
    /\ ~result.value

====
